---- MODULE Spec2Model ----
(***************************************************************************)
(* Model of the ebook-generator job tracker and of the background runs     *)
(* that drive it.                                                          *)
(*                                                                         *)
(*   src/api/job_store.py            the in-memory job store               *)
(*   src/api/routers/ebooks.py       the endpoints that create a job       *)
(*   src/api/routers/jobs.py         the status endpoint                   *)
(*   src/api/services/generation.py  run_pdf_generation/run_text_generation*)
(*   src/api/services/supabase.py    insert_ebook (ebook and chapter rows) *)
(*                                                                         *)
(* Spec      the API as deployed: requests create jobs, every job has one  *)
(*           background run, the runs interleave.  The runs are observed   *)
(*           at one reading of the clock; the clock advances in StoreSpec. *)
(* FairSpec  Spec plus weak fairness of every run (the event loop resumes  *)
(*           a run whose external call has returned or raised).            *)
(* StoreSpec the job store alone, its four functions called in any order   *)
(*           with any id.                                                  *)
(***************************************************************************)
EXTENDS Integers, Sequences, FiniteSets, TLC

(* ------------------------------ bounds -------------------------------- *)

\* Number of job ids uuid4 can hand out in one behaviour.
MaxJobs == 2

\* Largest number of chapters in a generated bundle.
MaxChapters == 2

\* Largest reading of the wall clock.
MaxClock == 1
MaxWords == 600
MaxBlocks == 2
MaxPadding == 50

(* ------------------------- values and helpers -------------------------- *)

\* Optional[T]: None is the empty tuple, a present value x is <<x>>.
None == << >>

Some(x) == <<x>>

\* JobStatus (job_store.py:9-15).
PENDING == "pending"

PROCESSING == "processing"

COMPLETED == "completed"

FAILED == "failed"

JobStatus == {PENDING, PROCESSING, COMPLETED, FAILED}

\* The attributes of the Job dataclass: hasattr(job, key) for a keyword key.
JobFields ==
  {"id", "status", "progress", "current_step", "ebook_id", "error",
   "created_at", "updated_at"}

\* Job(id=..., status=PENDING) with the dataclass defaults; each timestamp
\* is its own reading of the clock at construction, created_at first.
Job(id, t, u) ==
  [id |-> id, status |-> PENDING, progress |-> 0, current_step |-> "",
   ebook_id |-> None, error |-> None, created_at |-> t, updated_at |-> u]

JobIds == 1 .. MaxJobs

\* The empty dict.
EmptyStore == [id \in {} |-> 0]

\* Exceptions an external call (file system, LLM, image, PDF, storage,
\* database) can raise, as (type, args).  A timeout of the HTTP client carries
\* an empty message.
Exceptions ==
  {[type |-> "ReadTimeout", args |-> <<"">>],
   [type |-> "ValueError",
    args |-> <<"Failed to extract PDF content into valid JSON">>]}

\* The exceptions a call of the language model raises in the generator.
CallErrors == {[type |-> "ReadTimeout", args |-> <<"">>]}

\* Chapter numbers a response of the language model may carry: two values,
\* enough for lists with repetitions, with gaps and in either order.
Numbers == {1, 2}

\* str(KeyError(k)) is repr(k).
KeyError(k) == [type |-> "KeyError", args |-> <<"'" \o k \o "'">>]

\* The error extract_pdf_content_structured raises.
PdfParseError ==
  [type |-> "ValueError",
   args |-> <<"Failed to extract PDF content into valid JSON">>]

\* str(e) of an exception: the empty string without args, else its argument.
str(e) == IF Len(e.args) = 0 THEN "" ELSE e.args[1]

(* ---------------------------- job_store.py ----------------------------- *)

\* create_job: the store after _jobs[job.id] = job, for the two readings of
\* the clock.
create_job(js, id, t, u) == js @@ (id :> Job(id, t, u))

\* Variant of update_job that stores a new job under an unknown id.
update_job_upsert(js, job_id, updates, t) ==
  LET base == IF job_id \in DOMAIN js THEN js ELSE js @@ (job_id :> Job(job_id, t, t))
  IN [base EXCEPT ![job_id] =
        [f \in JobFields |->
           IF f = "updated_at" THEN t
           ELSE IF f \in DOMAIN updates THEN updates[f]
           ELSE base[job_id][f]]]

\* Variant of update_job that refreshes updated_at only when a keyword named
\* a Job attribute (the timestamp written inside the loop).
update_job_stamp_in_loop(js, job_id, updates, t) ==
  IF job_id \in DOMAIN js
  THEN [js EXCEPT ![job_id] =
          [f \in JobFields |->
             IF f \in DOMAIN updates THEN updates[f]
             ELSE IF f = "updated_at" /\ DOMAIN updates \cap JobFields # {} THEN t
             ELSE js[job_id][f]]]
  ELSE js

\* Variant of update_job that sets the fields on every stored job.
update_job_every(js, job_id, updates, t) ==
  IF job_id \in DOMAIN js
  THEN [k \in DOMAIN js |->
          [f \in JobFields |->
             IF f = "updated_at" THEN t
             ELSE IF f \in DOMAIN updates THEN updates[f]
             ELSE js[k][f]]]
  ELSE js

\* update_job: for a stored id, setattr for every keyword that is a Job
\* attribute, then updated_at = utcnow(); for any other id, nothing.
update_job(js, job_id, updates, t) ==
  IF job_id \in DOMAIN js
  THEN [js EXCEPT ![job_id] =
          [f \in JobFields |->
             IF f = "updated_at" THEN t
             ELSE IF f \in DOMAIN updates THEN updates[f]
             ELSE js[job_id][f]]]
  ELSE js

\* get_job: _jobs.get(job_id).
get_job(js, job_id) ==
  IF job_id \in DOMAIN js THEN Some(js[job_id]) ELSE None

\* Variant of delete_job that reports the deletion and keeps the entry.
delete_job_keep(js, job_id) == js

\* delete_job: the store after the call.
delete_job(js, job_id) ==
  IF job_id \in DOMAIN js
  THEN [id \in DOMAIN js \ {job_id} |-> js[id]]
  ELSE js

\* delete_job: its return value.
delete_job_result(js, job_id) == job_id \in DOMAIN js

(* -------------------------- routers/jobs.py ---------------------------- *)

\* get_job_status: 404 when get_job returns None, else the job as a dict.
get_job_status(js, job_id) ==
  LET job == get_job(js, job_id) IN
    IF job = None
    THEN [status_code |-> 404, detail |-> "Job not found"]
    ELSE [status_code |-> 200,
          body |-> [job_id |-> job[1].id,
                    status |-> job[1].status,
                    progress |-> job[1].progress,
                    current_step |-> job[1].current_step,
                    ebook_id |-> job[1].ebook_id,
                    error |-> job[1].error,
                    created_at |-> job[1].created_at,
                    updated_at |-> job[1].updated_at]]

(* ------------------------------- state --------------------------------- *)

VARIABLES
  jobs,        \* _jobs: job id -> Job
  issued,      \* ids uuid4 has returned so far
  deleted,     \* ids delete_job has been called with since they were issued
  now,         \* the wall clock read by datetime.utcnow()
  run,         \* per job id: the background run (mode, position, locals)
  dbEbooks,    \* rows of the external ebooks table: [id, by]
  dbChapters,  \* rows of the external chapters table: [ebook_id, chapter_number, by]
  lastCall     \* the last call made on the job store: [op, id, args, result],
               \* or the last function applied on its own: [op, its arguments, result]

\* The generator of one run in detail (GenSpec): EbookGenerator.generate,
\* EbookGenerator.generate_from_pdfs and insert_ebook call by call.
VARIABLES
  gpc,          \* position inside generate / generate_from_pdfs
  num_chapters, \* the num_chapters argument of generate
  outline,      \* generate: the outline create_outline returned
  extracted,    \* generate_from_pdfs: the classified documents [en, pt]
  cover_url,    \* the cover image reference
  tasks,        \* the sub-tasks handed to asyncio.gather, in argument order
  order,        \* indices of the sub-tasks that returned, in completion order
  calls,        \* external calls issued so far: [kind, i]
  bundle,       \* the bundle generate / generate_from_pdfs returned
  firstError,   \* the first exception a step or sub-task raised, and where
  uploads,      \* insert_ebook: what upload_image returned, per local reference
  written       \* insert_ebook: the write records handed to the database

genVars ==
  <<gpc, num_chapters, outline, extracted, cover_url, tasks, order, calls,
    bundle, firstError, uploads, written>>

vars ==
  <<jobs, issued, deleted, now, run, dbEbooks, dbChapters, lastCall, genVars>>

NoRun == [mode |-> "none", pc |-> "none", n |-> 0, k |-> 0, ebook_id |-> None]

NoCall == [op |-> "none", id |-> 0]

Init ==
  /\ jobs = EmptyStore
  /\ issued = {}
  /\ deleted = {}
  /\ now = 0
  /\ run = [j \in JobIds |-> NoRun]
  /\ dbEbooks = {}
  /\ dbChapters = {}
  /\ lastCall = NoCall
  /\ gpc = "idle"
  /\ num_chapters = 0
  /\ outline = None
  /\ extracted = None
  /\ cover_url = None
  /\ tasks = << >>
  /\ order = << >>
  /\ calls = {}
  /\ bundle = None
  /\ firstError = None
  /\ uploads = << >>
  /\ written = << >>

\* Time passes.
Tick ==
  /\ now < MaxClock
  /\ now' = now + 1
  /\ UNCHANGED <<jobs, issued, deleted, run, dbEbooks, dbChapters, lastCall, genVars>>

(* ------------------------- routers/ebooks.py --------------------------- *)

\* create_ebook_from_pdfs, for a request that passes validation: create_job,
\* then schedule run_pdf_generation as a background task.  The clock of the
\* runs stands still, so both timestamps of the job read the same time.
CreateEbookFromPdfs ==
  \E id \in JobIds \ issued :
    /\ jobs' = create_job(jobs, id, now, now)
    /\ issued' = issued \cup {id}
    /\ run' = [run EXCEPT ![id] = [NoRun EXCEPT !.mode = "pdf", !.pc = "scheduled"]]
    /\ UNCHANGED <<deleted, now, dbEbooks, dbChapters, lastCall, genVars>>

\* create_ebook_from_text, for a request that passes validation: create_job,
\* then schedule run_text_generation as a background task.
CreateEbookFromText ==
  \E id \in JobIds \ issued :
    /\ jobs' = create_job(jobs, id, now, now)
    /\ issued' = issued \cup {id}
    /\ run' = [run EXCEPT ![id] = [NoRun EXCEPT !.mode = "text", !.pc = "scheduled"]]
    /\ UNCHANGED <<deleted, now, dbEbooks, dbChapters, lastCall, genVars>>

(* ----------------------- services/generation.py ------------------------ *)

\* Keyword arguments of the update_job calls of a run.
StartUpdate(mode) ==
  [status |-> PROCESSING,
   current_step |-> IF mode = "pdf" THEN "Initializing"
                    ELSE "Researching topic with Perplexity",
   progress |-> 5]

ExtractingUpdate ==
  [current_step |-> "Extracting PDF content", progress |-> 10]

GeneratingUpdate(mode) ==
  [current_step |-> IF mode = "pdf"
                    THEN "Processing with AI (this takes a few minutes)"
                    ELSE "Generating content with AI (this takes several minutes)",
   progress |-> 15]

SavingUpdate ==
  [current_step |-> "Uploading images and saving to database", progress |-> 85]

CompletedUpdate(ebook_id) ==
  [status |-> COMPLETED, ebook_id |-> Some(ebook_id),
   current_step |-> "Complete", progress |-> 100]

\* Variants of the handler's update: one that puts the job back in the queue,
\* one that forgets the error, one that resets the progress, one that leaves
\* the status alone.
FailedUpdateRequeue(e) ==
  [status |-> PENDING, error |-> Some(str(e)), current_step |-> "Failed"]

FailedUpdateNoError(e) ==
  [status |-> FAILED, current_step |-> "Failed"]

FailedUpdateResetProgress(e) ==
  [status |-> FAILED, error |-> Some(str(e)), current_step |-> "Failed",
   progress |-> 0]

FailedUpdateNoStatus(e) ==
  [error |-> Some(str(e)), current_step |-> "Failed"]

FailedUpdate(e) ==
  [status |-> FAILED, error |-> Some(str(e)), current_step |-> "Failed"]

\* A run that has returned keeps no locals.
Finished == [NoRun EXCEPT !.pc = "done"]

\* except Exception as e: the handler writes FAILED and the run returns.
Raise(j, e) ==
  /\ jobs' = update_job(jobs, j, FailedUpdate(e), now)
  /\ run' = [run EXCEPT ![j] = Finished]

\* A step of job j's run that writes progress and moves on to position pc.
Proceed(j, updates, pc) ==
  /\ jobs' = update_job(jobs, j, updates, now)
  /\ run' = [run EXCEPT ![j].pc = pc]

\* The run starts: update_job(status=PROCESSING, progress=5).
RunStart(j) ==
  /\ run[j].pc = "scheduled"
  /\ Proceed(j, StartUpdate(run[j].mode),
             IF run[j].mode = "pdf" THEN "write_pdfs" ELSE "make_generator")
  /\ UNCHANGED <<issued, deleted, now, dbEbooks, dbChapters, lastCall, genVars>>

\* run_pdf_generation: enter the temporary directory and write both PDFs,
\* then progress=10; an error of the file system goes to the handler.
RunWritePdfs(j) ==
  /\ run[j].pc = "write_pdfs"
  /\ \/ Proceed(j, ExtractingUpdate, "make_generator")
     \/ \E e \in Exceptions : Raise(j, e)
  /\ UNCHANGED <<issued, deleted, now, dbEbooks, dbChapters, lastCall, genVars>>

\* Import and construct EbookGenerator (in run_text_generation, after
\* entering the temporary directory), then progress=15.
RunMakeGenerator(j) ==
  /\ run[j].pc = "make_generator"
  /\ \/ Proceed(j, GeneratingUpdate(run[j].mode), "generate")
     \/ \E e \in Exceptions : Raise(j, e)
  /\ UNCHANGED <<issued, deleted, now, dbEbooks, dbChapters, lastCall, genVars>>

\* await generator.generate(...) / generate_from_pdfs(...): it returns a
\* bundle of n chapters, then progress=85; or it raises what a call of the
\* language model raised, what outline["title_en"] raised on an outline
\* without that key (generate), or what extract_pdf_content_structured
\* raised on a response without JSON (generate_from_pdfs).
RunGenerate(j) ==
  /\ run[j].pc = "generate"
  /\ \/ \E n \in 0 .. MaxChapters :
          /\ jobs' = update_job(jobs, j, SavingUpdate, now)
          /\ run' = [run EXCEPT ![j].pc = "insert_ebook", ![j].n = n]
     \/ \E e \in CallErrors \cup (IF run[j].mode = "text"
                                  THEN {KeyError("title_en")}
                                  ELSE {PdfParseError}) :
          Raise(j, e)
  /\ UNCHANGED <<issued, deleted, now, dbEbooks, dbChapters, lastCall, genVars>>

(* ------------------------ services/supabase.py ------------------------- *)

\* The id the database gives the ebook row inserted by the run of job j:
\* result.data[0]["id"].  A run inserts at most one ebook row, so naming the
\* row after the job keeps the ids of different rows different.
EbookIdOf(j) == j

\* insert_ebook up to the ebook row: the client, the cover upload (which
\* never raises) and the insert; the client or the insert raises, or the
\* row is written.
RunInsertEbookRow(j) ==
  /\ run[j].pc = "insert_ebook"
  /\ \/ /\ dbEbooks' = dbEbooks \cup {[id |-> EbookIdOf(j), by |-> j]}
        /\ run' = [run EXCEPT ![j].pc = "insert_chapters",
                              ![j].ebook_id = Some(EbookIdOf(j))]
        /\ UNCHANGED jobs
     \/ /\ \E e \in Exceptions : Raise(j, e)
        /\ UNCHANGED dbEbooks
  /\ UNCHANGED <<issued, deleted, now, dbChapters, lastCall, genVars>>

\* insert_ebook, one turn of the chapter loop: the upload (which never
\* raises) and the insert of the next chapter row; the insert raises or the
\* row is written.  The row carries ch["chapter_number"], the number the
\* outline or the PDF gave the chapter: any number, and, the bundle being
\* sorted by it, none smaller than the numbers of the rows before.
RunInsertChapterRow(j) ==
  /\ run[j].pc = "insert_chapters"
  /\ run[j].k < run[j].n
  /\ \/ /\ \E number \in Numbers :
             /\ \A r \in dbChapters : r.by = j => r.chapter_number <= number
             /\ dbChapters' = dbChapters \cup
                                {[ebook_id |-> run[j].ebook_id[1],
                                  chapter_number |-> number, by |-> j]}
        /\ run' = [run EXCEPT ![j].k = @ + 1]
        /\ UNCHANGED jobs
     \/ /\ \E e \in Exceptions : Raise(j, e)
        /\ UNCHANGED dbChapters
  /\ UNCHANGED <<issued, deleted, now, dbEbooks, lastCall, genVars>>

\* insert_ebook returns the ebook id; update_job(status=COMPLETED,
\* ebook_id=..., progress=100).  The run is still inside try and with.
RunComplete(j) ==
  /\ run[j].pc = "insert_chapters"
  /\ run[j].k = run[j].n
  /\ Proceed(j, CompletedUpdate(run[j].ebook_id[1]), "leave_tmpdir")
  /\ UNCHANGED <<issued, deleted, now, dbEbooks, dbChapters, lastCall, genVars>>

\* The with block ends: TemporaryDirectory removes the directory and the
\* run returns, or the removal raises inside try and the handler runs.
RunLeaveTmpdir(j) ==
  /\ run[j].pc = "leave_tmpdir"
  /\ \/ /\ run' = [run EXCEPT ![j] = Finished]
        /\ UNCHANGED jobs
     \/ \E e \in Exceptions : Raise(j, e)
  /\ UNCHANGED <<issued, deleted, now, dbEbooks, dbChapters, lastCall, genVars>>

\* Any step of job j's background run.
RunStep(j) ==
  \/ RunStart(j)
  \/ RunWritePdfs(j)
  \/ RunMakeGenerator(j)
  \/ RunGenerate(j)
  \/ RunInsertEbookRow(j)
  \/ RunInsertChapterRow(j)
  \/ RunComplete(j)
  \/ RunLeaveTmpdir(j)

Next ==
  \/ CreateEbookFromPdfs
  \/ CreateEbookFromText
  \/ \E j \in JobIds : RunStart(j)
  \/ \E j \in JobIds : RunWritePdfs(j)
  \/ \E j \in JobIds : RunMakeGenerator(j)
  \/ \E j \in JobIds : RunGenerate(j)
  \/ \E j \in JobIds : RunInsertEbookRow(j)
  \/ \E j \in JobIds : RunInsertChapterRow(j)
  \/ \E j \in JobIds : RunComplete(j)
  \/ \E j \in JobIds : RunLeaveTmpdir(j)

Spec == Init /\ [][Next]_vars

\* The event loop keeps resuming runs whose pending call has returned or
\* raised: while some run can take a step, some run does.
FairSpec == Spec /\ WF_vars(\E j \in JobIds : RunStep(j))

(* --------------------- the job store on its own ------------------------ *)

\* Keyword arguments tried on update_job: those of a run's handler, a
\* keyword that is no Job attribute, a stale updated_at, a created_at as
\* late as the clock gets, an id no job was created with (hasattr accepts
\* every Job attribute), and no keyword at all.
UpdateInputs ==
  {FailedUpdate([type |-> "ReadTimeout", args |-> <<"">>]),
   [bogus |-> 1],
   [updated_at |-> 0],
   [created_at |-> MaxClock],
   [id |-> 0],
   [f \in {} |-> 0]}

\* create_job(): created_at reads the clock as it is, and the clock may
\* have moved on when updated_at reads it.
CreateJob ==
  \E id \in JobIds \ issued, u \in now .. MaxClock :
    /\ now' = u
    /\ jobs' = create_job(jobs, id, now, u)
    /\ issued' = issued \cup {id}
    /\ lastCall' = [op |-> "create_job", id |-> id]
    /\ UNCHANGED <<deleted, run, dbEbooks, dbChapters, genVars>>

\* update_job(job_id, **updates), with any id.
UpdateJob ==
  \E id \in JobIds, u \in UpdateInputs :
    /\ jobs' = update_job(jobs, id, u, now)
    /\ lastCall' = [op |-> "update_job", id |-> id]
    /\ UNCHANGED <<issued, deleted, now, run, dbEbooks, dbChapters, genVars>>

\* delete_job(job_id), with any id.
DeleteJob ==
  \E id \in JobIds :
    /\ jobs' = delete_job(jobs, id)
    /\ deleted' = IF id \in issued THEN deleted \cup {id} ELSE deleted
    /\ lastCall' = [op |-> "delete_job", id |-> id,
                    result |-> delete_job_result(jobs, id)]
    /\ UNCHANGED <<issued, now, run, dbEbooks, dbChapters, genVars>>

\* GET /api/v1/jobs/{job_id}, with any id.
GetJobStatus ==
  \E id \in JobIds :
    /\ lastCall' = [op |-> "get_job_status", id |-> id,
                    status_code |-> get_job_status(jobs, id).status_code]
    /\ UNCHANGED <<jobs, issued, deleted, now, run, dbEbooks, dbChapters, genVars>>

StoreNext ==
  \/ CreateJob
  \/ UpdateJob
  \/ DeleteJob
  \/ GetJobStatus
  \/ Tick

StoreSpec == Init /\ [][StoreNext]_vars

(* --------------------------- html_builder.py --------------------------- *)

\* The larger of two numbers.
max(a, b) == IF a >= b THEN a ELSE b

\* A result of a call: the value returned, or the exception raised.
Returned(v) == [raised |-> FALSE, value |-> v]

Raised(type) == [raised |-> TRUE, value |-> "", exc |-> type]

\* block.get(key, default)
Get(block, key, default) == IF key \in DOMAIN block THEN block[key] ELSE default

\* A JSON number, where a field can hold a number [num |-> n] or a string
\* [str |-> s].
Num(n) == [num |-> n]

\* sub in s
Contains(s, sub) ==
  \E i \in 1 .. Len(s) - Len(sub) + 1 : SubSeq(s, i, i + Len(sub) - 1) = sub

\* s.split(sep)[0]
BeforeFirst(s, sep) ==
  IF ~Contains(s, sep) THEN s
  ELSE LET i == CHOOSE i \in 1 .. Len(s) - Len(sep) + 1 :
                  /\ SubSeq(s, i, i + Len(sep) - 1) = sep
                  /\ \A k \in 1 .. i - 1 : SubSeq(s, k, k + Len(sep) - 1) # sep
       IN IF i = 1 THEN "" ELSE SubSeq(s, 1, i - 1)

\* s.split(sep)[-1]
AfterLast(s, sep) ==
  IF ~Contains(s, sep) THEN s
  ELSE LET i == CHOOSE i \in 1 .. Len(s) - Len(sep) + 1 :
                  /\ SubSeq(s, i, i + Len(sep) - 1) = sep
                  /\ \A k \in i + 1 .. Len(s) - Len(sep) + 1 :
                       SubSeq(s, k, k + Len(sep) - 1) # sep
       IN IF i + Len(sep) > Len(s) THEN "" ELSE SubSeq(s, i + Len(sep), Len(s))

\* escape: html.escape(str(text)) if text else "", quotes included.
RECURSIVE escape(_)
escape(text) ==
  LET EscapeChar(c) ==
        CASE c = "&" -> "&amp;"
          [] c = "<" -> "&lt;"
          [] c = ">" -> "&gt;"
          [] c = "\"" -> "&quot;"
          [] c = "'" -> "&#x27;"
          [] OTHER -> c
  IN IF text = "" THEN "" ELSE EscapeChar(Head(text)) \o escape(Tail(text))

\* sep.join(parts)
RECURSIVE join(_, _)
join(sep, parts) ==
  IF parts = << >> THEN ""
  ELSE IF Len(parts) = 1 THEN parts[1]
  ELSE parts[1] \o sep \o join(sep, Tail(parts))

\* build_paragraph: block["text"] raises KeyError without the field.
build_paragraph(block) ==
  IF "text" \notin DOMAIN block THEN Raised("KeyError")
  ELSE Returned("<p>" \o escape(block.text) \o "</p>")

\* build_heading: max(2, min(4, level)) raises TypeError for a level that is
\* not a number, block["text"] raises KeyError without the field.
build_heading(block) ==
  LET level == Get(block, "level", Num(2)) IN
    IF "num" \notin DOMAIN level THEN Raised("TypeError")
    ELSE IF "text" \notin DOMAIN block THEN Raised("KeyError")
    ELSE LET h == ToString(max(2, IF 4 <= level.num THEN 4 ELSE level.num))
         IN Returned("<h" \o h \o ">" \o escape(block.text) \o "</h" \o h \o ">")

\* build_list
build_list(block) ==
  LET tag == IF Get(block, "ordered", FALSE) THEN "ol" ELSE "ul"
      items == Get(block, "items", << >>)
      items_html == join("\n", [i \in 1 .. Len(items) |->
                                  "        <li>" \o escape(items[i]) \o "</li>"])
  IN Returned("<" \o tag \o " class=\"my-4 pl-6 space-y-2\">\n" \o items_html
              \o "\n    </" \o tag \o ">")

\* build_callout: the classes and the icon of a style, those of info for a
\* style that is not one of the four.
CalloutStyles ==
  [info |-> [border |-> "border-blue-500", bg |-> "bg-blue-500/10",
             icon |-> "&#8505;&#65039;"],
   warning |-> [border |-> "border-yellow-500", bg |-> "bg-yellow-500/10",
                icon |-> "&#9888;&#65039;"],
   tip |-> [border |-> "border-green-500", bg |-> "bg-green-500/10",
            icon |-> "&#128161;"],
   note |-> [border |-> "border-purple-500", bg |-> "bg-purple-500/10",
             icon |-> "&#128221;"]]

\* build_callout
build_callout(block) ==
  LET style == Get(block, "style", "info")
      title == Get(block, "title", "")
      content == Get(block, "content", "")
      cfg == IF style \in DOMAIN CalloutStyles THEN CalloutStyles[style]
             ELSE CalloutStyles["info"]
  IN Returned(
       "<div data-block=\"callout\" data-callout-type=\"" \o style
       \o "\" class=\"my-6 p-4 rounded-lg border-l-4 " \o cfg.border \o " "
       \o cfg.bg \o "\">\n    <div class=\"flex gap-3\">\n      <span class=\"text-xl\">"
       \o cfg.icon \o "</span>\n      <div>\n        <strong class=\"block mb-1\">"
       \o escape(title) \o "</strong>\n        <p class=\"text-gray-300 m-0\">"
       \o escape(content) \o "</p>\n      </div>\n    </div>\n  </div>")

\* build_code
build_code(block) ==
  LET language == Get(block, "language", "")
      filename == Get(block, "filename", "")
      code == escape(Get(block, "code", ""))
      header ==
        IF filename # ""
        THEN "    <div class=\"px-4 py-2 bg-neutral-800 border-b border-neutral-700 text-xs text-gray-400 font-mono\">"
             \o escape(filename) \o "</div>\n"
        ELSE ""
  IN Returned(
       "<div data-block=\"code\" data-language=\"" \o language
       \o "\" data-filename=\"" \o escape(filename)
       \o "\" class=\"my-6 rounded-lg overflow-hidden bg-neutral-900 border border-neutral-700\">\n"
       \o header
       \o "    <pre class=\"p-4 overflow-x-auto m-0\"><code class=\"text-sm font-mono text-gray-200\">"
       \o code \o "</code></pre>\n  </div>")

\* build_video: the type and the embed url of a url.
VideoOf(url) ==
  IF Contains(url, "youtube.com") \/ Contains(url, "youtu.be")
  THEN LET video_id ==
             IF Contains(url, "youtu.be/")
             THEN BeforeFirst(AfterLast(url, "youtu.be/"), "?")
             ELSE IF Contains(url, "v=")
             THEN BeforeFirst(AfterLast(url, "v="), "&")
             ELSE url
       IN [video_type |-> "youtube",
           embed_url |-> "https://www.youtube.com/embed/" \o video_id]
  ELSE IF Contains(url, "vimeo.com")
  THEN [video_type |-> "vimeo",
        embed_url |-> "https://player.vimeo.com/video/"
                        \o BeforeFirst(AfterLast(url, "/"), "?")]
  ELSE [video_type |-> "youtube", embed_url |-> url]

\* build_video
build_video(block) ==
  LET url == Get(block, "url", "")
      caption == escape(Get(block, "caption", ""))
      v == VideoOf(url)
      caption_html ==
        IF caption # ""
        THEN "\n    <p class=\"mt-2 text-center text-sm text-gray-400\">"
             \o caption \o "</p>"
        ELSE ""
  IN Returned(
       "<div data-block=\"video\" data-video-type=\"" \o v.video_type
       \o "\" class=\"my-8\">\n    <div class=\"relative aspect-video rounded-lg overflow-hidden bg-neutral-800\">\n      <iframe src=\""
       \o v.embed_url
       \o "\" title=\"Video\" allow=\"accelerometer; autoplay; clipboard-write; encrypted-media; gyroscope; picture-in-picture\" allowfullscreen class=\"absolute inset-0 w-full h-full\"></iframe>\n    </div>"
       \o caption_html \o "\n  </div>")

\* build_table: a header row of the headers and one row for every row.
build_table(block) ==
  LET headers == Get(block, "headers", << >>)
      rows == Get(block, "rows", << >>)
      header_cells ==
        join("\n", [i \in 1 .. Len(headers) |->
          "          <th class=\"border border-neutral-700 px-4 py-2 text-left\">"
            \o escape(headers[i]) \o "</th>"])
      cells(row) ==
        join("\n", [i \in 1 .. Len(row) |->
          "          <td class=\"border border-neutral-700 px-4 py-2\">"
            \o escape(row[i]) \o "</td>"])
      body_rows == [r \in 1 .. Len(rows) |->
                      "        <tr>\n" \o cells(rows[r]) \o "\n        </tr>"]
  IN Returned("<div class=\"my-6 overflow-x-auto\">\n"
       \o "    <table class=\"w-full border-collapse border border-neutral-700 text-sm\">\n"
       \o "      <thead class=\"bg-neutral-800\">\n"
       \o "        <tr>\n" \o header_cells \o "\n        </tr>\n"
       \o "      </thead>\n      <tbody>\n" \o join("\n", body_rows)
       \o "\n      </tbody>\n    </table>\n  </div>")

\* build_accordion: one item for every element of items; item.get raises
\* AttributeError for an element that is no JSON object.
build_accordion(block) ==
  LET items == Get(block, "items", << >>)
      item_html(i) ==
        "    <div data-accordion-item=\"" \o ToString(i - 1)
          \o "\" class=\"border border-neutral-700 rounded-lg mb-2 overflow-hidden\">\n"
          \o "      <div data-accordion-trigger class=\"px-4 py-3 bg-neutral-800 font-medium cursor-pointer hover:bg-neutral-700 flex justify-between items-center\">\n"
          \o "        <span>" \o escape(Get(items[i], "title", "")) \o "</span>\n"
          \o "        <span>&#9660;</span>\n      </div>\n"
          \o "      <div data-accordion-content class=\"px-4 py-3 border-t border-neutral-700\">\n"
          \o "        " \o escape(Get(items[i], "content", "")) \o "\n"
          \o "      </div>\n    </div>"
  IN IF \E i \in 1 .. Len(items) : "json" \in DOMAIN items[i]
     THEN Raised("AttributeError")
     ELSE Returned("<div data-block=\"accordion\" class=\"my-6\">\n"
            \o join("\n", [i \in 1 .. Len(items) |-> item_html(i)])
            \o "\n  </div>")

\* build_tabs: a button and a content pane for every tab, the first one
\* active; tab.get raises AttributeError for a tab that is no JSON object.
build_tabs(block) ==
  LET tabs == Get(block, "tabs", << >>)
      button(i) ==
        "      <button data-tab-button=\"" \o ToString(i - 1)
          \o "\" class=\"px-4 py-2 border-b-2 "
          \o (IF i = 1 THEN "border-orange-500 text-orange-500"
              ELSE "border-transparent text-gray-400")
          \o "\">" \o escape(Get(tabs[i], "label", "Tab " \o ToString(i)))
          \o "</button>"
      content(i) ==
        "      <div data-tab-content=\"" \o ToString(i - 1) \o "\" class=\""
          \o (IF i = 1 THEN "" ELSE "hidden ") \o "p-4\">"
          \o escape(Get(tabs[i], "content", "")) \o "</div>"
  IN IF \E i \in 1 .. Len(tabs) : "json" \in DOMAIN tabs[i]
     THEN Raised("AttributeError")
     ELSE Returned(
            "<div data-block=\"tabs\" class=\"my-6 border border-neutral-700 rounded-lg overflow-hidden\">\n"
            \o "    <div class=\"flex border-b border-neutral-700 bg-neutral-800\">\n"
            \o join("\n", [i \in 1 .. Len(tabs) |-> button(i)])
            \o "\n    </div>\n    <div>\n"
            \o join("\n", [i \in 1 .. Len(tabs) |-> content(i)])
            \o "\n    </div>\n  </div>")

\* build_quote: the text in quotation marks, and a footer for an author.
\* The footer of the source starts with the three characters U+00E2 U+20AC
\* U+201D, which a string of the model cannot hold: they are written
\* "\\u00e2\\u20ac\\u201d".
build_quote(block) ==
  LET text == escape(Get(block, "text", ""))
      author == escape(Get(block, "author", ""))
      author_html ==
        IF author = "" THEN ""
        ELSE "\n    <footer class=\"mt-3 text-sm text-gray-400\">"
               \o "\\u00e2\\u20ac\\u201d " \o author \o "</footer>"
  IN Returned("<blockquote data-block=\"quote\" data-author=\"" \o author
       \o "\" class=\"my-8 pl-6 border-l-4 border-orange-500 bg-neutral-800/50 py-4 pr-4 rounded-r-lg\">\n"
       \o "    <p class=\"text-lg italic text-gray-200 m-0\">\"" \o text
       \o "\"</p>" \o author_html \o "\n  </blockquote>")

\* BLOCK_BUILDERS: the builder of a block type, None without one.
BuilderOf(block_type, block) ==
  CASE block_type = "paragraph" -> Some(build_paragraph(block))
    [] block_type = "heading" -> Some(build_heading(block))
    [] block_type = "list" -> Some(build_list(block))
    [] block_type = "table" -> Some(build_table(block))
    [] block_type = "callout" -> Some(build_callout(block))
    [] block_type = "accordion" -> Some(build_accordion(block))
    [] block_type = "tabs" -> Some(build_tabs(block))
    [] block_type = "code" -> Some(build_code(block))
    [] block_type = "quote" -> Some(build_quote(block))
    [] block_type = "video" -> Some(build_video(block))
    [] OTHER -> None

\* build_html, the fallback of a block: a paragraph of its text, of its
\* content, or of str(block), modelled for blocks of the one field type.
FallbackPart(block) ==
  LET text == IF "text" \in DOMAIN block THEN block.text
              ELSE IF "content" \in DOMAIN block THEN block.content
              ELSE "{'type': '" \o block.type \o "'}"
  IN "<p>" \o escape(text) \o "</p>"

\* build_html, one turn of the loop over a block that is a JSON object.
PartOf(block) ==
  LET builder == BuilderOf(Get(block, "type", "paragraph"), block) IN
    IF builder # None
    THEN IF builder[1].raised THEN FallbackPart(block) ELSE builder[1].value
    ELSE FallbackPart(block)

\* build_html: block.get on an element that is no JSON object raises
\* AttributeError outside the try; else the parts joined by a blank line.
\* An element that is a JSON object is a record of its fields; any other
\* JSON value is the record [json |-> its kind].
build_html(blocks) ==
  IF \E i \in 1 .. Len(blocks) : "json" \in DOMAIN blocks[i]
  THEN Raised("AttributeError")
  ELSE Returned(join("\n\n", [i \in 1 .. Len(blocks) |-> PartOf(blocks[i])]))

(* ----------------------------- generator.py ---------------------------- *)

\* The chapter-number lists of a response: any numbers, in any order, with
\* repetitions and gaps, up to MaxChapters chapters.
NumberSeqs == UNION {[1 .. n -> Numbers] : n \in 0 .. MaxChapters}

\* The topic of the request: create_ebook_from_text accepts a topic of 10 to
\* 1000 characters.
Topic == "stoic discipline"

\* An external call, for the log of calls issued.
Call(kind, i) == [kind |-> kind, i |-> i]

\* The log entries of an image call with outcome o: the call, and a mark
\* for its kind when the call raised inside _generate_image.
ImageCall(kind, i, o, raises) ==
  {Call(kind, i)} \cup (IF o \in raises THEN {Call(kind \o "_error", 0)} ELSE {})

\* What the image endpoint can do with one request.
ImageOutcomes ==
  {"http_error", "timeout", "empty_body", "no_choices", "null_content",
   "text_only", "data_url", "bad_base64", "write_error"}

\* The outcomes that raise inside the try block of _generate_image:
\* raise_for_status, the timeout of post, response.json(), the subscripts of
\* data, content.startswith on None, b64decode, write_bytes.
RaisesInTry ==
  {"http_error", "timeout", "empty_body", "no_choices", "null_content",
   "bad_base64", "write_error"}

\* Variant of _generate_image whose except clause raises again.
_generate_image_reraise(outcome, filename) ==
  IF outcome \in RaisesInTry
  THEN [raised |-> TRUE, value |-> "",
        exc |-> Some([type |-> "HTTPStatusError", args |-> <<outcome>>])]
  ELSE [raised |-> FALSE, value |-> "images/" \o filename, exc |-> None]

\* _generate_image: the reference images/<filename>, from the except clause
\* when the try block raised, from the data-url branch when the content
\* carries an image, from the fallback return otherwise.
_generate_image(outcome, filename) ==
  IF outcome \in RaisesInTry
  THEN [raised |-> FALSE, value |-> "images/" \o filename, exc |-> None]
  ELSE IF outcome = "data_url"
  THEN [raised |-> FALSE, value |-> "images/" \o filename, exc |-> None]
  ELSE [raised |-> FALSE, value |-> "images/" \o filename, exc |-> None]

\* A chapter stub of an outline, by its position in the response.
Stub(pos, number) ==
  [number |-> number,
   title_en |-> "Title " \o ToString(pos),
   title_pt |-> "Titulo " \o ToString(pos)]

\* The outlines the language model can return as the expected JSON.
OutlineDicts ==
  {[title_en |-> "The Book", title_pt |-> "O Livro",
    chapters |-> [i \in 1 .. Len(nums) |-> Stub(i, nums[i])]] :
     nums \in NumberSeqs}

\* A JSON object without the outline fields.
WrongShape == [note |-> "I cannot help with that"]

\* The fallback outline of create_outline.
FallbackOutline(n) ==
  [title_en |-> "The " \o Topic \o " Protocol",
   title_pt |-> "O Protocolo " \o Topic,
   chapters |-> [i \in 1 .. n |->
                   [number |-> i,
                    title_en |-> "Chapter " \o ToString(i),
                    title_pt |-> "Capitulo " \o ToString(i)]]]

\* A response text of the language model: one JSON object (form "object",
\* with the parsed value), prose without JSON, or malformed JSON.
IsJson(text) == text.form = "object"

\* create_outline after the call: the parsed object when the text parses,
\* the fallback outline on JSONDecodeError.
create_outline(text, n) ==
  IF IsJson(text) THEN text.value ELSE FallbackOutline(n)

\* Variant of extract_pdf_content_structured that falls back to an empty
\* document, as create_outline falls back to a templated outline.
extract_pdf_content_structured_fallback(text) ==
  IF IsJson(text)
  THEN [raised |-> FALSE, value |-> Some(text.value), exc |-> None]
  ELSE [raised |-> FALSE,
        value |-> Some([title |-> "Untitled", chapters |-> << >>]),
        exc |-> None]

\* extract_pdf_content_structured after the call: the parsed document, or
\* ValueError on JSONDecodeError.
extract_pdf_content_structured(text) ==
  IF IsJson(text)
  THEN [raised |-> FALSE, value |-> Some(text.value), exc |-> None]
  ELSE [raised |-> TRUE, value |-> None, exc |-> Some(PdfParseError)]

\* The documents the classification can return as JSON, for a language.
PdfDocs(lang) ==
  {[title |-> lang \o " title",
    chapters |-> [i \in 1 .. Len(nums) |->
                    [number |-> nums[i],
                     title |-> lang \o " chapter " \o ToString(i),
                     summary |-> lang \o " summary " \o ToString(i),
                     blocks |-> <<[type |-> "paragraph",
                                   text |-> lang \o " text " \o ToString(i)]>>]]] :
     nums \in NumberSeqs}

\* The English prose the content call returns for the stub at position pos,
\* and its translation.
English(pos) == "prose " \o ToString(pos)

Portuguese(content_en) == "pt(" \o content_en \o ")"

\* Variant of write_chapter that marks the first stub of the outline as the
\* free preview.
write_chapter_first_stub(chapter_info, pos, image_url) ==
  [chapter_number |-> chapter_info.number,
   title_en |-> chapter_info.title_en,
   title_pt |-> chapter_info.title_pt,
   cover_image_url |-> image_url,
   content_en |-> English(pos),
   content_pt |-> Portuguese(English(pos)),
   is_free_preview |-> (pos = 1),
   is_published |-> FALSE]

\* write_chapter: the chapter it returns.
write_chapter(chapter_info, pos, image_url) ==
  [chapter_number |-> chapter_info.number,
   title_en |-> chapter_info.title_en,
   title_pt |-> chapter_info.title_pt,
   cover_image_url |-> image_url,
   content_en |-> English(pos),
   content_pt |-> Portuguese(English(pos)),
   is_free_preview |-> (chapter_info.number = 1),
   is_published |-> FALSE]

\* generate_from_pdfs: the Portuguese chapter with the number of ch_en, the
\* first one in the document, or None.
MatchPt(doc_pt, ch_en) ==
  LET hits == {i \in 1 .. Len(doc_pt.chapters) :
                 doc_pt.chapters[i].number = ch_en.number}
  IN IF hits = {} THEN None
     ELSE Some(doc_pt.chapters[CHOOSE i \in hits : \A k \in hits : i <= k])

\* Variant of the pairing that leaves the Portuguese title empty when the
\* Portuguese document has no chapter of that number.
PdfChapterNoDefault(ch_en, image_url, doc_pt) ==
  LET ch_pt == MatchPt(doc_pt, ch_en) IN
    [chapter_number |-> ch_en.number,
     title_en |-> ch_en.title,
     title_pt |-> IF ch_pt = None THEN "" ELSE ch_pt[1].title,
     cover_image_url |-> image_url,
     content_en |-> IF ch_en.blocks # << >> THEN build_html(ch_en.blocks).value ELSE "",
     content_pt |-> IF ch_pt # None /\ ch_pt[1].blocks # << >>
                    THEN build_html(ch_pt[1].blocks).value ELSE "",
     summary_en |-> ch_en.summary,
     summary_pt |-> IF ch_pt = None THEN "" ELSE ch_pt[1].summary,
     is_free_preview |-> (ch_en.number = 1),
     is_published |-> FALSE]

\* generate_from_pdfs: the chapter built from an English chapter, its image
\* and the Portuguese document.
PdfChapter(ch_en, image_url, doc_pt) ==
  LET ch_pt == MatchPt(doc_pt, ch_en) IN
    [chapter_number |-> ch_en.number,
     title_en |-> ch_en.title,
     title_pt |-> IF ch_pt = None THEN ch_en.title ELSE ch_pt[1].title,
     cover_image_url |-> image_url,
     content_en |-> IF ch_en.blocks # << >> THEN build_html(ch_en.blocks).value ELSE "",
     content_pt |-> IF ch_pt # None /\ ch_pt[1].blocks # << >>
                    THEN build_html(ch_pt[1].blocks).value ELSE "",
     summary_en |-> ch_en.summary,
     summary_pt |-> IF ch_pt = None THEN "" ELSE ch_pt[1].summary,
     is_free_preview |-> (ch_en.number = 1),
     is_published |-> FALSE]

\* sorted(chapters, key=chapter_number): ascending, and stable.
RECURSIVE sorted(_)
sorted(chapters) ==
  IF Len(chapters) <= 1 THEN chapters
  ELSE LET rest == sorted(SubSeq(chapters, 1, Len(chapters) - 1))
           x == chapters[Len(chapters)]
           k == Cardinality({i \in 1 .. Len(rest) :
                               rest[i].chapter_number <= x.chapter_number})
       IN SubSeq(rest, 1, k) \o <<x>> \o SubSeq(rest, k + 1, Len(rest))

\* asyncio.gather returns once every sub-task has returned.
gather_ready(ts) == \A i \in 1 .. Len(ts) : ts[i].pc = "done"

\* The results of the sub-tasks that returned, in argument order.
ResultsOf(ts) ==
  LET done == SelectSeq(ts, LAMBDA t : t.pc = "done")
  IN [i \in 1 .. Len(done) |-> done[i].result[1]]

\* Variant of asyncio.gather that lists the results as they came in.
gather_as_completed(ts, ord) == [k \in 1 .. Len(ord) |-> ts[ord[k]].result[1]]

\* asyncio.gather: the results in the order of its arguments.
gather(ts, ord) == ResultsOf(ts)

\* A sub-task waiting for its first call; response is the form of the text
\* its classification call returned, "none" while there is none.
Task(pc) == [pc |-> pc, result |-> None, response |-> "none"]

\* generate / generate_from_pdfs raises e: the handler of the run marks the
\* job failed.
GenRaise(j, e, at) ==
  /\ Raise(j, e)
  /\ gpc' = "raised"
  /\ firstError' = Some([exc |-> e, at |-> at])

\* Variant of asyncio.gather that keeps the exception of a sub-task to
\* itself, as with return_exceptions.
TaskRaiseKept(j, i, e, at, response) ==
  /\ tasks' = [tasks EXCEPT ![i].pc = "failed", ![i].response = response]
  /\ UNCHANGED <<jobs, run, gpc, firstError>>

\* Sub-task i raises e.  asyncio.gather takes the first exception of its
\* sub-tasks and drops a later one; the run that awaits it is resumed in a
\* later turn of the event loop, and the other sub-tasks keep running.
TaskRaise(j, i, e, at, response) ==
  /\ tasks' = [tasks EXCEPT ![i].pc = "failed", ![i].response = response]
  /\ firstError' = IF firstError = None THEN Some([exc |-> e, at |-> at])
                   ELSE firstError
  /\ UNCHANGED <<jobs, run, gpc>>

\* The job of the request of GenSpec.
GenJob == 1

\* POST /from-text with num_chapters = n.
GenRequestText ==
  /\ issued = {}
  /\ \E n \in 1 .. MaxChapters : num_chapters' = n
  /\ jobs' = create_job(jobs, GenJob, now, now)
  /\ issued' = {GenJob}
  /\ run' = [run EXCEPT ![GenJob] = [NoRun EXCEPT !.mode = "text", !.pc = "scheduled"]]
  /\ UNCHANGED <<deleted, now, dbEbooks, dbChapters, lastCall, gpc, outline,
                 extracted, cover_url, tasks, order, calls, bundle, firstError,
                 uploads, written>>

\* POST /from-pdfs.
GenRequestPdfs ==
  /\ issued = {}
  /\ jobs' = create_job(jobs, GenJob, now, now)
  /\ issued' = {GenJob}
  /\ run' = [run EXCEPT ![GenJob] = [NoRun EXCEPT !.mode = "pdf", !.pc = "scheduled"]]
  /\ UNCHANGED <<deleted, now, dbEbooks, dbChapters, lastCall, genVars>>

\* Variant of phase 1 that goes on to the outline without research data when
\* the research call raises.
GenResearchSwallow(j) ==
  /\ run[j].pc = "generate" /\ run[j].mode = "text" /\ gpc = "idle"
  /\ calls' = calls \cup {Call("research", 0)}
  /\ gpc' = "outline"
  /\ \/ UNCHANGED firstError
     \/ \E e \in CallErrors : firstError' = Some([exc |-> e, at |-> "research"])
  /\ UNCHANGED <<jobs, run, issued, deleted, now, dbEbooks, dbChapters, lastCall,
                 num_chapters, outline, extracted, cover_url, tasks, order,
                 bundle, uploads, written>>

\* generate, phase 1: the research call.
GenResearch(j) ==
  /\ run[j].pc = "generate" /\ run[j].mode = "text" /\ gpc = "idle"
  /\ calls' = calls \cup {Call("research", 0)}
  /\ \/ /\ gpc' = "outline"
        /\ UNCHANGED <<jobs, run, firstError>>
     \/ \E e \in CallErrors : GenRaise(j, e, "research")
  /\ UNCHANGED <<issued, deleted, now, dbEbooks, dbChapters, lastCall,
                 num_chapters, outline, extracted, cover_url, tasks, order,
                 bundle, uploads, written>>

\* generate, phase 2: create_outline.  The call raises, or it returns a text
\* that create_outline parses or replaces by the fallback outline.
GenOutline(j) ==
  /\ run[j].pc = "generate" /\ gpc = "outline"
  /\ calls' = calls \cup {Call("outline", 0)}
  /\ \/ /\ \/ \E d \in OutlineDicts :
                outline' = Some(create_outline([form |-> "object", value |-> d],
                                               num_chapters))
           \/ outline' = Some(create_outline([form |-> "object", value |-> WrongShape],
                                             num_chapters))
           \/ \E f \in {"prose", "malformed"} :
                outline' = Some(create_outline([form |-> f], num_chapters))
        /\ gpc' = "cover"
        /\ UNCHANGED <<jobs, run, firstError>>
     \/ /\ \E e \in CallErrors : GenRaise(j, e, "outline")
        /\ UNCHANGED outline
  /\ UNCHANGED <<issued, deleted, now, dbEbooks, dbChapters, lastCall,
                 num_chapters, extracted, cover_url, tasks, order, bundle,
                 uploads, written>>

\* generate, phase 3: outline["title_en"], then generate_cover, then the
\* write_chapter tasks are handed to asyncio.gather.
GenCover(j) ==
  /\ run[j].pc = "generate" /\ gpc = "cover"
  /\ IF "title_en" \notin DOMAIN outline[1]
     THEN /\ GenRaise(j, KeyError("title_en"), "outline_fields")
          /\ UNCHANGED <<calls, cover_url, tasks, order>>
     ELSE \E o \in ImageOutcomes :
               LET r == _generate_image(o, "cover.png") IN
               /\ calls' = calls \cup ImageCall("cover_image", 0, o, RaisesInTry)
               /\ IF r.raised
                 THEN /\ GenRaise(j, r.exc[1], "cover_image")
                      /\ UNCHANGED <<cover_url, tasks, order>>
                 ELSE /\ cover_url' = Some(r.value)
                      /\ tasks' = [i \in 1 .. Len(outline[1].chapters) |->
                                     Task("english")]
                      /\ order' = << >>
                      /\ gpc' = "chapters"
                      /\ UNCHANGED <<jobs, run, firstError>>
  /\ UNCHANGED <<issued, deleted, now, dbEbooks, dbChapters, lastCall,
                 num_chapters, outline, extracted, bundle, uploads, written>>

\* write_chapter of the stub at position i: the content call.
GenChapterEnglish(j, i) ==
  /\ j = GenJob /\ gpc \in {"chapters", "raised"}
  /\ i \in 1 .. Len(tasks) /\ tasks[i].pc = "english"
  /\ calls' = calls \cup {Call("chapter_content", i)}
  /\ \/ /\ tasks' = [tasks EXCEPT ![i].pc = "translate"]
        /\ UNCHANGED <<jobs, run, gpc, firstError>>
     \/ \E e \in CallErrors : TaskRaise(j, i, e, "chapter_content", "none")
  /\ UNCHANGED <<issued, deleted, now, dbEbooks, dbChapters, lastCall,
                 num_chapters, outline, extracted, cover_url, order, bundle,
                 uploads, written>>

\* write_chapter of the stub at position i: the translation call.
GenChapterTranslate(j, i) ==
  /\ j = GenJob /\ gpc \in {"chapters", "raised"}
  /\ i \in 1 .. Len(tasks) /\ tasks[i].pc = "translate"
  /\ calls' = calls \cup {Call("chapter_translation", i)}
  /\ \/ /\ tasks' = [tasks EXCEPT ![i].pc = "image"]
        /\ UNCHANGED <<jobs, run, gpc, firstError>>
     \/ \E e \in CallErrors : TaskRaise(j, i, e, "chapter_translation", "none")
  /\ UNCHANGED <<issued, deleted, now, dbEbooks, dbChapters, lastCall,
                 num_chapters, outline, extracted, cover_url, order, bundle,
                 uploads, written>>

\* write_chapter of the stub at position i: the image call, and the return.
GenChapterImage(j, i) ==
  /\ j = GenJob /\ gpc \in {"chapters", "raised"}
  /\ i \in 1 .. Len(tasks) /\ tasks[i].pc = "image"
  /\ \E o \in ImageOutcomes :
       LET info == outline[1].chapters[i]
           r == _generate_image(o, "chapter_" \o ToString(info.number) \o ".png")
       IN
       /\ calls' = calls \cup ImageCall("chapter_image", i, o, RaisesInTry)
       /\ IF r.raised
          THEN /\ TaskRaise(j, i, r.exc[1], "chapter_image", "none")
               /\ UNCHANGED order
          ELSE /\ tasks' = [tasks EXCEPT
                              ![i].pc = "done",
                              ![i].result = Some(write_chapter(info, i, r.value))]
               /\ order' = Append(order, i)
               /\ UNCHANGED <<jobs, run, gpc, firstError>>
  /\ UNCHANGED <<issued, deleted, now, dbEbooks, dbChapters, lastCall,
                 num_chapters, outline, extracted, cover_url, bundle, uploads,
                 written>>

\* generate, after asyncio.gather: the bundle is built and returned, the
\* sub-tasks are gone, and the run writes progress=85.
GenAssemble(j) ==
  /\ run[j].pc = "generate" /\ gpc = "chapters"
  /\ gather_ready(tasks)
  /\ LET chapters == gather(tasks, order) IN
       /\ bundle' = Some([ebook |-> [title_en |-> outline[1].title_en,
                                     title_pt |-> outline[1].title_pt,
                                     cover_image_url |-> cover_url[1]],
                          chapters |-> sorted(chapters)])
       /\ run' = [run EXCEPT ![j].pc = "insert_ebook", ![j].n = Len(chapters)]
  /\ gpc' = "returned"
  /\ tasks' = << >>
  /\ jobs' = update_job(jobs, j, SavingUpdate, now)
  /\ UNCHANGED <<issued, deleted, now, dbEbooks, dbChapters, lastCall,
                 num_chapters, outline, extracted, cover_url, order, calls,
                 firstError, uploads, written>>

\* generate_from_pdfs, phase 1: extract_pdf_content of both files, then the
\* two classification tasks are handed to asyncio.gather.
GenExtractPdfs(j) ==
  /\ run[j].pc = "generate" /\ run[j].mode = "pdf" /\ gpc = "idle"
  /\ \/ /\ tasks' = <<Task("classify"), Task("classify")>>
        /\ order' = << >>
        /\ gpc' = "classify"
        /\ UNCHANGED <<jobs, run, firstError>>
     \/ /\ \E e \in CallErrors : GenRaise(j, e, "extract")
        /\ UNCHANGED <<tasks, order>>
  /\ UNCHANGED <<issued, deleted, now, dbEbooks, dbChapters, lastCall,
                 num_chapters, outline, extracted, cover_url, calls, bundle,
                 uploads, written>>

\* extract_pdf_content_structured of language i: the call raises, or it
\* returns a text that is parsed.
GenClassify(j, i) ==
  /\ j = GenJob /\ gpc \in {"classify", "raised"}
  /\ i \in 1 .. Len(tasks) /\ tasks[i].pc = "classify"
  /\ calls' = calls \cup {Call("classify", i)}
  /\ \/ \E d \in PdfDocs(IF i = 1 THEN "en" ELSE "pt") :
          LET r == extract_pdf_content_structured([form |-> "object", value |-> d])
          IN /\ tasks' = [tasks EXCEPT ![i].pc = "done", ![i].result = r.value,
                                       ![i].response = "object"]
             /\ order' = Append(order, i)
             /\ UNCHANGED <<jobs, run, gpc, firstError>>
     \/ \E f \in {"prose", "malformed"} :
          LET r == extract_pdf_content_structured([form |-> f]) IN
            IF r.raised
            THEN /\ TaskRaise(j, i, r.exc[1], "classify_parse", f)
                 /\ UNCHANGED order
            ELSE /\ tasks' = [tasks EXCEPT ![i].pc = "done", ![i].result = r.value,
                                           ![i].response = f]
                 /\ order' = Append(order, i)
                 /\ UNCHANGED <<jobs, run, gpc, firstError>>
     \/ /\ \E e \in CallErrors : TaskRaise(j, i, e, "classify_call", "none")
        /\ UNCHANGED order
  /\ UNCHANGED <<issued, deleted, now, dbEbooks, dbChapters, lastCall,
                 num_chapters, outline, extracted, cover_url, bundle, uploads,
                 written>>

\* generate_from_pdfs, phase 3: after asyncio.gather of the classifications
\* the cover image call is issued and awaited on its own.
GenPdfCoverCall(j) ==
  /\ run[j].pc = "generate" /\ gpc = "classify"
  /\ gather_ready(tasks)
  /\ LET docs == gather(tasks, order) IN
       extracted' = Some([en |-> docs[1], pt |-> docs[2]])
  /\ calls' = calls \cup {Call("cover_image", 0)}
  /\ tasks' = << >>
  /\ order' = << >>
  /\ gpc' = "pdf_cover"
  /\ UNCHANGED <<jobs, issued, deleted, now, run, dbEbooks, dbChapters,
                 lastCall, num_chapters, outline, cover_url, bundle,
                 firstError, uploads, written>>

\* generate_from_pdfs, phase 4: the cover image call has returned, and the
\* chapter image tasks are created and handed to asyncio.gather.
GenPdfCover(j) ==
  /\ run[j].pc = "generate" /\ gpc = "pdf_cover"
  /\ \E o \in ImageOutcomes :
       LET r == _generate_image(o, "cover.png") IN
       /\ calls' = calls \cup ImageCall("cover_image", 0, o, RaisesInTry)
       /\ IF r.raised
          THEN /\ GenRaise(j, r.exc[1], "cover_image")
               /\ UNCHANGED <<cover_url, tasks, order>>
          ELSE /\ cover_url' = Some(r.value)
               /\ tasks' = [i \in 1 .. Len(extracted[1].en.chapters) |->
                              Task("pdf_image")]
               /\ order' = << >>
               /\ gpc' = "pdf_images"
               /\ UNCHANGED <<jobs, run, firstError>>
  /\ UNCHANGED <<issued, deleted, now, dbEbooks, dbChapters, lastCall,
                 num_chapters, outline, extracted, bundle, uploads, written>>

\* generate_from_pdfs: the image call of the English chapter at position i.
GenPdfImage(j, i) ==
  /\ j = GenJob /\ gpc \in {"pdf_images", "raised"}
  /\ i \in 1 .. Len(tasks) /\ tasks[i].pc = "pdf_image"
  /\ \E o \in ImageOutcomes :
       LET ch == extracted[1].en.chapters[i]
           r == _generate_image(o, "chapter_" \o ToString(ch.number) \o ".png")
       IN
       /\ calls' = calls \cup ImageCall("chapter_image", i, o, RaisesInTry)
       /\ IF r.raised
          THEN /\ TaskRaise(j, i, r.exc[1], "chapter_image", "none")
               /\ UNCHANGED order
          ELSE /\ tasks' = [tasks EXCEPT ![i].pc = "done",
                                         ![i].result = Some(r.value)]
               /\ order' = Append(order, i)
               /\ UNCHANGED <<jobs, run, gpc, firstError>>
  /\ UNCHANGED <<issued, deleted, now, dbEbooks, dbChapters, lastCall,
                 num_chapters, outline, extracted, cover_url, bundle, uploads,
                 written>>

\* generate_from_pdfs, after asyncio.gather: the chapters are built from the
\* English chapters zipped with their images, the bundle is returned, the
\* sub-tasks are gone, and the run writes progress=85.
GenPdfAssemble(j) ==
  /\ run[j].pc = "generate" /\ gpc = "pdf_images"
  /\ gather_ready(tasks)
  /\ LET images == gather(tasks, order)
         en == extracted[1].en
         chapters == [i \in 1 .. Len(images) |->
                        PdfChapter(en.chapters[i], images[i], extracted[1].pt)]
     IN /\ bundle' = Some([ebook |-> [title_en |-> en.title,
                                      title_pt |-> extracted[1].pt.title,
                                      cover_image_url |-> cover_url[1]],
                           chapters |-> sorted(chapters)])
        /\ run' = [run EXCEPT ![j].pc = "insert_ebook", ![j].n = Len(chapters)]
  /\ gpc' = "returned"
  /\ tasks' = << >>
  /\ jobs' = update_job(jobs, j, SavingUpdate, now)
  /\ UNCHANGED <<issued, deleted, now, dbEbooks, dbChapters, lastCall,
                 num_chapters, outline, extracted, cover_url, order, calls,
                 firstError, uploads, written>>

\* The phases that wait for concurrent sub-tasks.
GatherPhases == {"chapters", "classify", "pdf_images"}

\* await asyncio.gather raises: the run is resumed with the first exception
\* of the sub-tasks, generate / generate_from_pdfs raises it and the handler
\* of the run marks the job failed.
GenGatherRaise(j) ==
  /\ run[j].pc = "generate" /\ gpc \in GatherPhases
  /\ firstError # None
  /\ Raise(j, firstError[1].exc)
  /\ gpc' = "raised"
  /\ UNCHANGED <<issued, deleted, now, dbEbooks, dbChapters, lastCall,
                 num_chapters, outline, extracted, cover_url, tasks, order,
                 calls, bundle, firstError, uploads, written>>

(* ------------------------ supabase.py, in detail ----------------------- *)

\* The file names _generate_image is called with.
Filenames ==
  {"cover.png"} \cup {"chapter_" \o ToString(n) \o ".png" : n \in Numbers}

\* cover_url.startswith("images/")
IsLocal(ref) == \E f \in Filenames : ref = "images/" \o f

\* cover_url.replace("images/", "")
LocalName(ref) == CHOOSE f \in Filenames : ref = "images/" \o f

\* What an upload can do: the file is not there, the storage call raises,
\* or the file is stored.
UploadOutcomes == {"missing_file", "upload_error", "stored"}

\* upload_image: None when the file is missing or the upload raised, else
\* the public URL of the stored file.
upload_image(outcome, name, folder) ==
  IF outcome = "missing_file" THEN None
  ELSE IF outcome = "upload_error" THEN None
  ELSE Some("https://storage/ebook-covers/" \o folder \o "/" \o name)

\* Variant of the rewrite in insert_ebook that writes an empty reference
\* when the upload returned None.
StoredReferenceOrNothing(ref, uploaded_url) ==
  IF uploaded_url # None THEN uploaded_url[1] ELSE ""

\* insert_ebook: the reference written to the row, after the upload.
StoredReference(ref, uploaded_url) ==
  IF uploaded_url # None THEN uploaded_url[1] ELSE ref

\* insert_ebook up to the insert of the ebook row: get_supabase_client,
\* which raises before any upload or returns the client; then the upload of
\* the cover, which never raises, and the insert, which raises or writes the
\* row.  The record of the order the sub-tasks returned in ends here.
GenInsertEbook(j) ==
  /\ run[j].pc = "insert_ebook" /\ gpc = "returned"
  /\ \/ /\ \E e \in Exceptions : Raise(j, e)
        /\ UNCHANGED <<uploads, dbEbooks, written>>
     \/ \E o \in UploadOutcomes :
          LET ref == bundle[1].ebook.cover_image_url
              uploaded_url == IF IsLocal(ref)
                              THEN upload_image(o, LocalName(ref), "covers")
                              ELSE None
          IN /\ uploads' = Append(uploads, [ref |-> ref, returned |-> uploaded_url])
             /\ \/ /\ dbEbooks' = dbEbooks \cup {[id |-> EbookIdOf(j), by |-> j]}
                   /\ written' = Append(written,
                                   [kind |-> "ebook", chapter_number |-> 0,
                                    ref |-> ref, returned |-> uploaded_url,
                                    cover_image_url |-> StoredReference(ref, uploaded_url)])
                   /\ run' = [run EXCEPT ![j].pc = "insert_chapters",
                                         ![j].ebook_id = Some(EbookIdOf(j))]
                   /\ UNCHANGED jobs
                \/ /\ \E e \in Exceptions : Raise(j, e)
                   /\ UNCHANGED <<dbEbooks, written>>
  /\ order' = << >>
  /\ UNCHANGED <<issued, deleted, now, dbChapters, lastCall, gpc, num_chapters,
                 outline, extracted, cover_url, tasks, calls, bundle,
                 firstError>>

\* insert_ebook, one turn of the chapter loop: the upload of the chapter
\* image, then the insert of the chapter row.
GenInsertChapter(j) ==
  /\ run[j].pc = "insert_chapters" /\ gpc = "returned"
  /\ run[j].k < run[j].n
  /\ \E o \in UploadOutcomes :
       LET ch == bundle[1].chapters[run[j].k + 1]
           ref == ch.cover_image_url
           folder == "chapters/" \o ToString(run[j].ebook_id[1])
           uploaded_url == IF IsLocal(ref)
                           THEN upload_image(o, LocalName(ref), folder)
                           ELSE None
       IN /\ uploads' = Append(uploads, [ref |-> ref, returned |-> uploaded_url])
          /\ \/ /\ dbChapters' = dbChapters \cup
                                   {[ebook_id |-> run[j].ebook_id[1],
                                     chapter_number |-> ch.chapter_number,
                                     by |-> j]}
                /\ written' = Append(written,
                                [kind |-> "chapter",
                                 chapter_number |-> ch.chapter_number,
                                 ref |-> ref, returned |-> uploaded_url,
                                 cover_image_url |-> StoredReference(ref, uploaded_url)])
                /\ run' = [run EXCEPT ![j].k = @ + 1]
                /\ UNCHANGED jobs
             \/ /\ \E e \in Exceptions : Raise(j, e)
                /\ UNCHANGED <<dbChapters, written>>
  /\ UNCHANGED <<issued, deleted, now, dbEbooks, lastCall, gpc, num_chapters,
                 outline, extracted, cover_url, tasks, order, calls, bundle,
                 firstError>>

GenNext ==
  \/ GenRequestText
  \/ GenRequestPdfs
  \/ \E j \in JobIds : RunStart(j)
  \/ \E j \in JobIds : RunWritePdfs(j)
  \/ \E j \in JobIds : RunMakeGenerator(j)
  \/ \E j \in JobIds : GenResearch(j)
  \/ \E j \in JobIds : GenOutline(j)
  \/ \E j \in JobIds : GenCover(j)
  \/ \E j \in JobIds, i \in 1 .. MaxChapters : GenChapterEnglish(j, i)
  \/ \E j \in JobIds, i \in 1 .. MaxChapters : GenChapterTranslate(j, i)
  \/ \E j \in JobIds, i \in 1 .. MaxChapters : GenChapterImage(j, i)
  \/ \E j \in JobIds : GenAssemble(j)
  \/ \E j \in JobIds : GenExtractPdfs(j)
  \/ \E j \in JobIds, i \in 1 .. 2 : GenClassify(j, i)
  \/ \E j \in JobIds : GenPdfCoverCall(j)
  \/ \E j \in JobIds : GenPdfCover(j)
  \/ \E j \in JobIds, i \in 1 .. MaxChapters : GenPdfImage(j, i)
  \/ \E j \in JobIds : GenPdfAssemble(j)
  \/ \E j \in JobIds : GenGatherRaise(j)
  \/ \E j \in JobIds : GenInsertEbook(j)
  \/ \E j \in JobIds : GenInsertChapter(j)
  \/ \E j \in JobIds : RunComplete(j)
  \/ \E j \in JobIds : RunLeaveTmpdir(j)

GenSpec == Init /\ [][GenNext]_vars

(* ------------------------------ properties ---------------------------- *)

Stored == DOMAIN jobs

Terminal == {COMPLETED, FAILED}

\* Position of a status in the order pending -> processing -> {completed, failed}.
Rank(status) ==
  CASE status = PENDING -> 0
    [] status = PROCESSING -> 1
    [] status \in Terminal -> 2

\* C1: over any step of the API and of the background runs, no job's status
\* moves to one that comes earlier in pending -> processing -> {completed,
\* failed}.
StatusOnlyMovesForward ==
  [][\A j \in Stored \cap DOMAIN jobs' :
       Rank(jobs'[j].status) >= Rank(jobs[j].status)]_vars

\* C1 witness: two runs have ended, one completed and one failed, the failed
\* one after it had reached processing and progress 85.
StatusOnlyMovesForwardWitness ==
  \E i, j \in Stored :
    /\ run[i].pc = "done" /\ jobs[i].status = COMPLETED
    /\ run[j].pc = "done" /\ jobs[j].status = FAILED /\ jobs[j].progress = 85

\* C2 (as claimed): once a job's status is completed or failed, no later step
\* changes its status.
TerminalStatusNeverChanges ==
  [][\A j \in Stored \cap DOMAIN jobs' :
       jobs[j].status \in Terminal => jobs'[j].status = jobs[j].status]_vars

\* C3 (as claimed): a job's ebook_id is set if and only if its status is
\* completed.
EbookIdIffCompleted ==
  \A j \in Stored : (jobs[j].ebook_id # None) <=> (jobs[j].status = COMPLETED)

\* C4: a job's error is set (not None) if and only if its status is failed.
ErrorIffFailed ==
  \A j \in Stored : (jobs[j].error # None) <=> (jobs[j].status = FAILED)

\* C4 witness: a run failed on an exception with an empty message, so the
\* error is the empty string and still not None; another job is not failed.
ErrorIffFailedWitness ==
  \E i, j \in Stored :
    /\ jobs[i].status = FAILED /\ jobs[i].error = Some("")
    /\ jobs[j].status = PROCESSING /\ jobs[j].error = None

\* C5 (as claimed): the status endpoint shows a non-empty error string for
\* every failed job.
FailedJobExposesNonEmptyError ==
  \A j \in Stored :
    get_job_status(jobs, j).body.status = FAILED =>
      /\ get_job_status(jobs, j).body.error # None
      /\ get_job_status(jobs, j).body.error # Some("")

\* C6 (as claimed): the external store holds no ebook row and no chapter row
\* written by the run of a failed job.
FailedJobLeavesNoRows ==
  \A j \in Stored :
    jobs[j].status = FAILED =>
      /\ \A r \in dbEbooks : r.by # j
      /\ \A r \in dbChapters : r.by # j

\* C7: a job's progress is always within 0..100 and no step of a run, the
\* failure handler included, makes it smaller.
ProgressNeverDecreases ==
  /\ [](\A j \in Stored : jobs[j].progress \in 0 .. 100)
  /\ [][\A j \in Stored \cap DOMAIN jobs' :
          jobs'[j].progress >= jobs[j].progress]_vars

\* C7 witness: the failure handler has run on a job whose progress was 85.
ProgressNeverDecreasesWitness ==
  \E j \in Stored :
    jobs[j].status = FAILED /\ run[j].pc = "done" /\ jobs[j].progress = 85

\* A run has started once its first update_job call was made.
Started(j) == run[j].pc \notin {"none", "scheduled"}

\* C8: a job is created in pending, moves from pending to processing in the
\* step that starts its run, a started run stays started, and no job whose
\* run has started stays outside completed and failed forever (so it
\* eventually reaches one of them), given that every external call returns or
\* raises.
EveryStartedJobEnds ==
  /\ [][\A j \in DOMAIN jobs' \ Stored : jobs'[j].status = PENDING]_vars
  /\ [][\A j \in Stored \cap DOMAIN jobs' :
          (~Started(j) /\ Started(j)') =>
            (jobs[j].status = PENDING /\ jobs'[j].status = PROCESSING)]_vars
  /\ [][\A j \in JobIds : Started(j) => Started(j)']_vars
  /\ \A j \in JobIds :
       []<>(Started(j) => (j \in Stored /\ jobs[j].status \in Terminal))

\* C8 witness: a run ended in the failure handler while another run, already
\* started, is still waiting for an external call.
EveryStartedJobEndsWitness ==
  \E i, j \in Stored :
    /\ run[i].pc = "done" /\ jobs[i].status = FAILED
    /\ run[j].pc = "generate" /\ jobs[j].status = PROCESSING

\* C9: an update_job call with an id that is not in the store leaves the
\* store as it was: no job appears and no field of a stored job changes.
UpdateOfUnknownIdIsNoOp ==
  [][(lastCall'.op = "update_job" /\ lastCall'.id \notin Stored)
       => jobs' = jobs]_vars

\* C9 witness: update_job was just called with an id that is not stored while
\* another job is stored.
UpdateOfUnknownIdIsNoOpWitness ==
  /\ lastCall.op = "update_job"
  /\ lastCall.id \notin Stored
  /\ Stored # {}

\* C10: get_job returns the job record exactly for the ids that create_job
\* returned and delete_job has not been called with since, whatever
\* update_job calls were made (the record's id attribute is the id it was
\* created with or the one an update_job call naming id wrote there); for
\* every other id it returns None and the status endpoint answers 404.
GetJobFindsExactlyLiveJobs ==
  \A id \in JobIds :
    IF id \in issued \ deleted
    THEN /\ get_job(jobs, id) # None
         /\ get_job(jobs, id)[1].id \in
              {id} \cup {u.id : u \in {v \in UpdateInputs : "id" \in DOMAIN v}}
         /\ get_job_status(jobs, id).status_code = 200
    ELSE /\ get_job(jobs, id) = None
         /\ get_job_status(jobs, id).status_code = 404

\* C10 witness: after creations, updates and a deletion, one id is stored, one
\* id was deleted, and update_job has just been called with the deleted id.
GetJobFindsExactlyLiveJobsWitness ==
  /\ \E id \in issued \ deleted : jobs[id].status # PENDING
  /\ deleted # {}
  /\ lastCall.op = "update_job"
  /\ lastCall.id \in deleted

\* C11, as claimed: every update_job call on a stored id leaves that job's
\* updated_at at the time of the call, whatever keywords it names
\* (attributes of Job, updated_at itself, names that are no attribute, none
\* at all); updated_at never decreases and is never earlier than created_at.
UpdateAlwaysRefreshesUpdatedAt ==
  /\ [][\A id \in Stored \cap DOMAIN jobs' :
          (lastCall'.op = "update_job" /\ lastCall'.id = id /\ now' = now)
            => jobs'[id].updated_at = now]_vars
  /\ [][\A id \in Stored \cap DOMAIN jobs' :
          jobs'[id].updated_at >= jobs[id].updated_at]_vars
  /\ [](\A id \in Stored : jobs[id].updated_at >= jobs[id].created_at)

\* C11, amended: every update_job call on a stored id leaves that job's
\* updated_at at the time of the call, whatever keywords it names
\* (attributes of Job, updated_at itself, names that are no attribute, none
\* at all), so with a clock that does not run backwards updated_at never
\* decreases; a job is created with updated_at not earlier than created_at,
\* and it stays so until created_at is changed, which only an update_job
\* call on the job (one naming created_at) does.
UpdatedAtIsTimeOfLastUpdate ==
  /\ [][\A id \in Stored \cap DOMAIN jobs' :
          (lastCall'.op = "update_job" /\ lastCall'.id = id /\ now' = now)
            => jobs'[id].updated_at = now]_vars
  /\ [][\A id \in Stored \cap DOMAIN jobs' :
          jobs'[id].updated_at >= jobs[id].updated_at]_vars
  /\ [][\A id \in DOMAIN jobs' \ Stored :
          jobs'[id].updated_at >= jobs'[id].created_at]_vars
  /\ [][\A id \in Stored \cap DOMAIN jobs' :
          /\ (/\ jobs[id].updated_at >= jobs[id].created_at
              /\ jobs'[id].created_at = jobs[id].created_at)
               => jobs'[id].updated_at >= jobs'[id].created_at
          /\ jobs'[id].created_at # jobs[id].created_at
               => (lastCall'.op = "update_job" /\ lastCall'.id = id)]_vars

\* C11 witness: time has passed since a job was created and update_job was
\* just called on it with keywords that set none of its fields; its
\* updated_at is the time of the call.
UpdatedAtIsTimeOfLastUpdateWitness ==
  /\ lastCall.op = "update_job"
  /\ lastCall.id \in Stored
  /\ jobs[lastCall.id] =
       [Job(lastCall.id, 0, 0) EXCEPT !.updated_at = now]
  /\ now > 0

\* C30: with several jobs whose runs interleave in the shared store, each
\* job's record is changed only by its own run: a step of the run of job j
\* leaves every field of every other stored job unchanged, and no step
\* changes the records of two jobs.
RunsChangeOnlyTheirOwnJob ==
  [][/\ \A j \in JobIds, k \in Stored :
          (k # j /\ run'[j] # run[j]) =>
            (k \in DOMAIN jobs' /\ jobs'[k] = jobs[k])
     /\ \A j \in Stored, k \in Stored :
          (k # j /\ j \in DOMAIN jobs' /\ jobs'[j] # jobs[j]) =>
            (k \in DOMAIN jobs' /\ jobs'[k] = jobs[k])]_vars

\* C30 witness: the job created second has completed while the run of the
\* job created first is still at its progress update of the generation.
RunsChangeOnlyTheirOwnJobWitness ==
  /\ Stored = {1, 2}
  /\ jobs[1].status = PROCESSING /\ jobs[1].progress = 15
  /\ jobs[1].ebook_id = None
  /\ jobs[2].status = COMPLETED /\ jobs[2].progress = 100
  /\ jobs[2].ebook_id # None

(* --------------------- properties of the generator --------------------- *)

\* The image calls of both modes.
ImageCalls == {c \in calls : c.kind \in {"cover_image", "chapter_image"}}

\* Nothing has been handed to insert_ebook and nothing has been written.
NothingPersisted ==
  /\ bundle = None
  /\ uploads = << >> /\ written = << >>
  /\ dbEbooks = {} /\ dbChapters = {}

\* The run of the job has ended and the job is failed with the text of e.
EndedFailedWith(e) ==
  /\ GenJob \in DOMAIN jobs
  /\ run[GenJob].pc = "done"
  /\ jobs[GenJob].status = FAILED
  /\ jobs[GenJob].error = Some(str(e))
  /\ jobs[GenJob].ebook_id = None

\* The research call of generate raised.
ResearchFailed == firstError # None /\ firstError[1].at = "research"

\* C12: in topic mode, once the research call has failed, research is the
\* only call ever issued (no outline, cover-image, chapter, translation or
\* chapter-image call), no bundle is returned and nothing is handed to
\* insert_ebook or written, and the job has ended failed with that error.
ResearchFailureIsFatal ==
  ResearchFailed =>
    /\ calls = {Call("research", 0)}
    /\ outline = None /\ cover_url = None /\ tasks = << >>
    /\ NothingPersisted
    /\ EndedFailedWith(firstError[1].exc)

ResearchFailureIsFatalWitness ==
  /\ ResearchFailed
  /\ run[GenJob].pc = "done"
  /\ jobs[GenJob].status = FAILED

\* The outline of the run is the outline an unusable response must yield:
\* num_chapters stubs numbered 1..num_chapters, with titles.
ValidFallback(o) ==
  /\ {"title_en", "title_pt", "chapters"} \subseteq DOMAIN o
  /\ Len(o.chapters) = num_chapters
  /\ \A i \in 1 .. num_chapters : o.chapters[i].number = i

\* C13: whatever the outline call returns that is not the expected outline
\* JSON, the run does not fail at the outline: the outline is a valid one
\* with num_chapters stubs numbered 1..num_chapters.  The expected JSON is
\* an object with the outline fields; the run fails because of the outline
\* when reading its fields raises.
UnusableOutlineNeverFailsRun ==
  /\ (firstError # None => firstError[1].at # "outline_fields")
  /\ (outline # None /\ outline[1] \notin OutlineDicts => ValidFallback(outline[1]))

\* The classification call of task i returned a text that is not JSON.
Unparseable(i) == tasks[i].response \in {"prose", "malformed"}

\* A classification call itself raised.
SomeClassifyCallRaised ==
  \E k \in 1 .. Len(tasks) : tasks[k].pc = "failed" /\ tasks[k].response = "none"

\* C14: in PDF mode, once the classification of either language has
\* returned a text that is not parseable JSON, that sub-task has raised, no
\* image call is ever issued, nothing is persisted, and the run leaves the
\* classification only by raising, which ends the job failed with the
\* first error raised; that error is the ValueError of the parse whenever
\* no classification call raised on its own.
UnparseablePdfIsFatal ==
  \A i \in 1 .. Len(tasks) :
    Unparseable(i) =>
      /\ tasks[i].pc = "failed"
      /\ firstError # None
      /\ firstError[1].at \in {"classify_parse", "classify_call"}
      /\ firstError[1].at = "classify_parse" =>
           firstError[1].exc = PdfParseError /\ PdfParseError.type = "ValueError"
      /\ ~SomeClassifyCallRaised => firstError[1].at = "classify_parse"
      /\ ImageCalls = {}
      /\ extracted = None /\ cover_url = None
      /\ NothingPersisted
      /\ gpc \in {"classify", "raised"}
      /\ gpc = "raised" => EndedFailedWith(firstError[1].exc)

UnparseablePdfIsFatalWitness ==
  /\ Len(tasks) = 2
  /\ tasks[1].pc = "done" /\ tasks[1].response = "object"
  /\ tasks[2].pc = "failed" /\ tasks[2].response = "malformed"
  /\ jobs[GenJob].status = FAILED
  /\ jobs[GenJob].error = Some("Failed to extract PDF content into valid JSON")

\* The placeholder reference of a chapter number.
ChapterRef(n) == "images/chapter_" \o ToString(n) \o ".png"

\* C15: _generate_image returns images/<filename> and raises nothing for
\* every outcome of the image call; no run fails at an image call, and the
\* cover and every chapter a sub-task returns carry the reference of their
\* file whatever the image calls did.
ImageFailureIsNeverFatal ==
  /\ \A o \in ImageOutcomes, f \in Filenames :
       _generate_image(o, f) =
         [raised |-> FALSE, value |-> "images/" \o f, exc |-> None]
  /\ firstError # None => firstError[1].at \notin {"cover_image", "chapter_image"}
  /\ cover_url # None => cover_url = Some("images/cover.png")
  /\ \A i \in 1 .. Len(tasks) :
       /\ tasks[i].pc = "done" /\ gpc = "chapters" =>
            tasks[i].result[1].cover_image_url =
              ChapterRef(tasks[i].result[1].chapter_number)
       /\ tasks[i].pc = "done" /\ gpc = "pdf_images" =>
            tasks[i].result[1] = ChapterRef(extracted[1].en.chapters[i].number)
  /\ bundle # None =>
       /\ bundle[1].ebook.cover_image_url = "images/cover.png"
       /\ \A k \in 1 .. Len(bundle[1].chapters) :
            bundle[1].chapters[k].cover_image_url =
              ChapterRef(bundle[1].chapters[k].chapter_number)

ImageFailureIsNeverFatalWitness ==
  /\ Call("cover_image_error", 0) \in calls
  /\ Call("chapter_image_error", 0) \in calls
  /\ bundle # None /\ Len(bundle[1].chapters) >= 1
  /\ bundle[1].ebook.cover_image_url = "images/cover.png"
  /\ jobs[GenJob].status = COMPLETED

\* The reference the bundle carries for the k-th row insert_ebook writes:
\* the cover for the ebook row, then the chapters in bundle order.
BundleRef(k) ==
  IF k = 1 THEN bundle[1].ebook.cover_image_url
  ELSE bundle[1].chapters[k - 1].cover_image_url

\* C16: every row insert_ebook has written, for the cover and for each
\* chapter, carries the URL the upload returned when it returned one, and
\* the unchanged local reference of the bundle when the upload returned
\* None; the reference is never dropped, and rows are written after failed
\* uploads.
FailedUploadKeepsLocalReference ==
  /\ \A o \in UploadOutcomes, f \in Filenames :
       upload_image(o, f, "covers") = None <=> o # "stored"
  /\ \A k \in 1 .. Len(written) :
       /\ written[k].ref = BundleRef(k)
       /\ written[k].returned = None => written[k].cover_image_url = written[k].ref
       /\ written[k].returned # None =>
            written[k].cover_image_url = written[k].returned[1]
       /\ written[k].cover_image_url # ""
       /\ uploads[k] = [ref |-> written[k].ref, returned |-> written[k].returned]

FailedUploadKeepsLocalReferenceWitness ==
  /\ Len(written) = 3
  /\ written[1].returned = None /\ written[1].cover_image_url = "images/cover.png"
  /\ written[2].returned # None
  /\ written[3].returned = None /\ written[3].cover_image_url = ChapterRef(2)
  /\ jobs[GenJob].status = COMPLETED

\* The chapters generate returns for an outline, computed from the outline
\* alone: the chapter of each stub, with the texts and the image reference
\* of that stub, in ascending order of chapter number.
ExpectedTopicBundle(o) ==
  [ebook |-> [title_en |-> o.title_en, title_pt |-> o.title_pt,
              cover_image_url |-> "images/cover.png"],
   chapters |-> sorted([i \in 1 .. Len(o.chapters) |->
                          write_chapter(o.chapters[i], i,
                                        ChapterRef(o.chapters[i].number))])]

\* The same for generate_from_pdfs and the two classified documents.
ExpectedPdfBundle(x) ==
  [ebook |-> [title_en |-> x.en.title, title_pt |-> x.pt.title,
              cover_image_url |-> "images/cover.png"],
   chapters |-> sorted([i \in 1 .. Len(x.en.chapters) |->
                          PdfChapter(x.en.chapters[i],
                                     ChapterRef(x.en.chapters[i].number), x.pt)])]

\* C17: the bundle generate and generate_from_pdfs return is a function of
\* the responses alone (the outline and the texts of each stub, the two
\* classified documents), whatever order the sub-tasks ran and returned in;
\* each chapter carries the texts and the image reference of its own stub.
BundleIndependentOfInterleaving ==
  bundle # None =>
    IF extracted # None
    THEN bundle[1] = ExpectedPdfBundle(extracted[1])
    ELSE bundle[1] = ExpectedTopicBundle(outline[1])

\* A topic-mode bundle whose second sub-task returned first.
BundleIndependentOfInterleavingWitness ==
  /\ bundle # None /\ outline # None
  /\ order = <<2, 1>>
  /\ Len(bundle[1].chapters) = 2
  /\ bundle[1].chapters[1].content_en = English(1)
  /\ bundle[1].chapters[2].content_en = English(2)

\* The chapter numbers the outline or the English classification delivered,
\* in the order delivered.
DeliveredNumbers ==
  IF extracted # None
  THEN [i \in 1 .. Len(extracted[1].en.chapters) |-> extracted[1].en.chapters[i].number]
  ELSE [i \in 1 .. Len(outline[1].chapters) |-> outline[1].chapters[i].number]

\* C18: a phase that waits for concurrent sub-tasks is left for its
\* successor only when every sub-task has returned; once a sub-task has
\* raised, the phase is left only by raising, no later error replaces the
\* first one raised, no bundle exists, and a run that has raised has ended
\* the job failed with the first error; a bundle that exists holds one
\* chapter for every chapter delivered.
PhaseWaitsForAllAndFirstErrorWins ==
  /\ [][(gpc \in GatherPhases /\ gpc' \notin {gpc, "raised"}) =>
          /\ \A i \in 1 .. Len(tasks) : tasks[i].pc = "done"
          /\ firstError = None]_vars
  /\ [][firstError # None => firstError' = firstError]_vars
  /\ []((\E i \in 1 .. Len(tasks) : tasks[i].pc = "failed") =>
          /\ firstError # None
          /\ gpc \in GatherPhases \cup {"raised"}
          /\ NothingPersisted)
  /\ [](gpc = "raised" =>
          firstError # None /\ EndedFailedWith(firstError[1].exc))
  /\ [](bundle # None =>
          /\ firstError = None
          /\ Len(bundle[1].chapters) = Len(DeliveredNumbers))

\* Both classification sub-tasks raised, the call of the first before the
\* parse of the second: the job shows the error of the call.
PhaseWaitsForAllAndFirstErrorWinsWitness ==
  /\ Len(tasks) = 2
  /\ tasks[1].pc = "failed" /\ tasks[1].response = "none"
  /\ tasks[2].pc = "failed" /\ tasks[2].response = "prose"
  /\ firstError[1].at = "classify_call"
  /\ jobs[GenJob].status = FAILED /\ jobs[GenJob].error = Some("")

\* The chapter numbers of the bundle, in bundle order.
BundleNumbers ==
  [k \in 1 .. Len(bundle[1].chapters) |-> bundle[1].chapters[k].chapter_number]

\* How often n occurs in the sequence of numbers ns.
Occurrences(ns, n) == Cardinality({k \in 1 .. Len(ns) : ns[k] = n})

\* C19: the chapters of every bundle are strictly ascending by
\* chapter_number, whatever order and numbers were delivered.
BundleStrictlyAscending ==
  bundle # None =>
    \A k \in 1 .. Len(BundleNumbers) - 1 : BundleNumbers[k] < BundleNumbers[k + 1]

\* The positions of the free-preview chapters of the bundle.
FreePreviews ==
  {k \in 1 .. Len(bundle[1].chapters) : bundle[1].chapters[k].is_free_preview}

\* C20, as claimed: every topic-mode bundle has exactly one free-preview
\* chapter, and it is the chapter numbered 1.
ExactlyOneFreePreview ==
  (bundle # None /\ extracted = None) =>
    /\ Cardinality(FreePreviews) = 1
    /\ \A k \in FreePreviews : BundleNumbers[k] = 1

\* C20, amended: in every topic-mode bundle a chapter is a free preview
\* exactly when its chapter_number is 1; so there is exactly one, the
\* chapter numbered 1, when exactly one stub of the outline is numbered 1,
\* as in the fallback outline.
FreePreviewIffNumberOne ==
  (bundle # None /\ extracted = None) =>
    /\ \A k \in 1 .. Len(bundle[1].chapters) :
         bundle[1].chapters[k].is_free_preview <=> BundleNumbers[k] = 1
    /\ Occurrences(DeliveredNumbers, 1) = 1 => Cardinality(FreePreviews) = 1
    /\ outline[1] = FallbackOutline(num_chapters) => FreePreviews = {1}

\* A bundle of the outline numbered 2, 1: the free preview is its first
\* chapter, written from the second stub.
FreePreviewIffNumberOneWitness ==
  /\ bundle # None /\ extracted = None
  /\ DeliveredNumbers = <<2, 1>>
  /\ FreePreviews = {1}
  /\ bundle[1].chapters[1].content_en = English(2)

\* C22: in PDF mode every chapter of the English classification has its
\* chapter in the bundle, with the English title and number; its Portuguese
\* title, content and summary are those of the first Portuguese chapter of
\* the same number, wherever that chapter stands, and when there is none
\* the Portuguese title is the English title and the Portuguese content and
\* summary are empty.
PdfChaptersPairedByNumber ==
  (bundle # None /\ extracted # None) =>
    LET en == extracted[1].en
        pt == extracted[1].pt
        Numbered(doc, n) ==
          {m \in 1 .. Len(doc.chapters) : doc.chapters[m].number = n}
    IN \A i \in 1 .. Len(en.chapters) :
         \E k \in 1 .. Len(bundle[1].chapters) :
           LET ch == bundle[1].chapters[k]
               n == en.chapters[i].number
               hits == Numbered(pt, n)
           IN /\ ch.chapter_number = n
              /\ ch.title_en = en.chapters[i].title
              /\ ch.summary_en = en.chapters[i].summary
              /\ hits = {} =>
                   /\ ch.title_pt = en.chapters[i].title
                   /\ ch.content_pt = "" /\ ch.summary_pt = ""
              /\ hits # {} =>
                   LET m == CHOOSE m \in hits : \A h \in hits : m <= h IN
                     /\ ch.title_pt = pt.chapters[m].title
                     /\ ch.summary_pt = pt.chapters[m].summary
                     /\ ch.content_pt = "<p>" \o pt.chapters[m].blocks[1].text \o "</p>"

\* English chapters 1, 2 against Portuguese chapters 2 alone: chapter 1 is
\* kept with defaults, chapter 2 takes the first Portuguese chapter.
PdfChaptersPairedByNumberWitness ==
  /\ bundle # None /\ extracted # None
  /\ DeliveredNumbers = <<1, 2>>
  /\ Len(extracted[1].pt.chapters) = 1 /\ extracted[1].pt.chapters[1].number = 2
  /\ bundle[1].chapters[1].title_pt = "en chapter 1"
  /\ bundle[1].chapters[1].content_pt = ""
  /\ bundle[1].chapters[2].title_pt = "pt chapter 1"

\* C28: in generate_from_pdfs the cover image call and the chapter image
\* calls are issued concurrently: while the cover image call has not yet
\* returned, the image task of every English chapter has been created.
CoverAndChapterImagesIssuedTogether ==
  gpc = "pdf_cover" =>
    /\ Len(tasks) = Len(extracted[1].en.chapters)
    /\ \A i \in 1 .. Len(tasks) : tasks[i].pc \in {"pdf_image", "done", "failed"}

\* C29: once a sub-task of a concurrent phase has failed and the job is
\* failed, no sibling sub-task of the run is still running: no sub-task
\* takes a further step and no further external call is made.
NoSiblingRunsAfterFailure ==
  [][(GenJob \in DOMAIN jobs /\ jobs[GenJob].status = FAILED
        /\ \E i \in 1 .. Len(tasks) : tasks[i].pc = "failed")
       => (tasks' = tasks /\ calls' = calls)]_vars

(* ------------------- functions applied on their own -------------------- *)

\* The step that applies a function to arguments and records the call.
Apply(call) ==
  /\ lastCall = NoCall
  /\ lastCall' = call
  /\ UNCHANGED <<jobs, issued, deleted, now, run, dbEbooks, dbChapters, genVars>>

\* The reading speed of the estimate, in words per minute.
WordsPerMinute == 200

\* write_chapter: estimated_read_time_minutes of a content of word_count
\* whitespace-separated words.
TopicReadTime(word_count) == word_count \div WordsPerMinute

\* generate_from_pdfs: estimated_read_time_minutes of a content of
\* word_count whitespace-separated words.
PdfReadTime(word_count) == max(1, word_count \div WordsPerMinute)

\* The estimate of a chapter of either mode is computed for a content of up
\* to MaxWords words.
ApplyReadTime ==
  \E mode \in {"text", "pdf"}, word_count \in 0 .. MaxWords :
    Apply([op |-> "estimated_read_time_minutes", mode |-> mode,
           word_count |-> word_count,
           result |-> IF mode = "text" THEN TopicReadTime(word_count)
                      ELSE PdfReadTime(word_count)])

\* C21: in both modes the estimate of a chapter is max(1, word_count div
\* 200): 600 words give 3, 50 words give 1, and it is never 0.
ReadTimeIsAtLeastOne ==
  lastCall.op = "estimated_read_time_minutes" =>
    /\ lastCall.result = max(1, lastCall.word_count \div 200)
    /\ lastCall.result >= 1
    /\ lastCall.word_count = 600 => lastCall.result = 3
    /\ lastCall.word_count = 50 => lastCall.result = 1

\* The urls build_video is applied to.
UrlSamples ==
  {"https://www.youtube.com/watch?v=abc123&t=10",
   "https://youtu.be/abc123?t=10",
   "https://www.youtube.com/embed/abc123",
   "https://vimeo.com/channels/staff/7654321?share=copy",
   "https://example.com/media/clip.mp4",
   "https://example.com/x\"><script>",
   ""}

\* The elements build_html is applied to: blocks of known types with valid
\* fields, with a missing field, with a field of the wrong type, a block of
\* an unknown type, a block without a type, and an element that is a JSON
\* string.
BlockSamples ==
  {[type |-> "paragraph", text |-> "Tom & <script>"],
   [type |-> "paragraph"],
   [text |-> "plain"],
   [type |-> "heading", text |-> "Part 'one'", level |-> Num(7)],
   [type |-> "heading", text |-> "Part two", level |-> [str |-> "3"]],
   [type |-> "mystery", content |-> "a > b"],
   [type |-> "list", ordered |-> TRUE, items |-> <<"first", "<second>">>],
   [type |-> "callout", style |-> "tip", title |-> "Tip", content |-> "x < y"],
   [type |-> "callout", style |-> "\"><script>", title |-> "", content |-> "c"],
   [type |-> "code", language |-> "python", filename |-> "a.py", code |-> "a<b"],
   [type |-> "code", language |-> "\"<script>", code |-> "x"],
   [type |-> "table", headers |-> <<"A", "<b>">>,
    rows |-> <<<<"1", "x & y">>, <<"2", "z">>>>],
   [type |-> "table", text |-> "hi"],
   [type |-> "accordion",
    items |-> <<[title |-> "Q", content |-> "<script>"], [title |-> "R"]>>],
   [type |-> "accordion", items |-> <<[json |-> "string"]>>,
    content |-> "fallback"],
   [type |-> "tabs",
    tabs |-> <<[label |-> "One", content |-> "a"], [content |-> "b > c"]>>],
   [type |-> "quote", text |-> "hi"],
   [type |-> "quote", text |-> "<script>", author |-> "A & B"],
   [json |-> "string"]}
  \cup {[type |-> "video", url |-> u, caption |-> "clip"] : u \in UrlSamples}

\* build_html is applied to a list of up to MaxBlocks elements.
ApplyBuildHtml ==
  \E blocks \in UNION {[1 .. n -> BlockSamples] : n \in 0 .. MaxBlocks} :
    Apply([op |-> "build_html", blocks |-> blocks, result |-> build_html(blocks)])

\* C23: build_html raises for no list of blocks and returns one rendered
\* part for every element, in input order, joined by a blank line; the
\* empty list renders to the empty string.
BuildHtmlRendersEveryBlock ==
  LET Count(s, sub) ==
        Cardinality({i \in 1 .. Len(s) - Len(sub) + 1 :
                       SubSeq(s, i, i + Len(sub) - 1) = sub})
  IN
  lastCall.op = "build_html" =>
    /\ ~lastCall.result.raised
    /\ lastCall.blocks = << >> => lastCall.result.value = ""
    /\ lastCall.blocks # << >> =>
         Count(lastCall.result.value, "\n\n") = Len(lastCall.blocks) - 1
    /\ lastCall.result.value =
         join("\n\n", [i \in 1 .. Len(lastCall.blocks) |-> PartOf(lastCall.blocks[i])])

\* C24: whatever the string fields of the blocks hold, the rendered HTML
\* holds no <script> tag, and holds &lt;script&gt; for every block whose
\* fields hold <script>.
RenderedFieldsAreEscaped ==
  LET FieldsOf(block) ==
        {block[k] : k \in DOMAIN block \cap
                      {"text", "content", "title", "style", "language",
                       "filename", "code", "url", "caption", "author"}}
  IN
  (lastCall.op = "build_html" /\ ~lastCall.result.raised) =>
    /\ ~Contains(lastCall.result.value, "<script>")
    /\ \A i \in 1 .. Len(lastCall.blocks) :
         (\E f \in FieldsOf(lastCall.blocks[i]) : Contains(f, "<script>")) =>
           Contains(lastCall.result.value, "&lt;script&gt;")

\* build_video is applied to a url.
ApplyBuildVideo ==
  \E url \in UrlSamples :
    Apply([op |-> "build_video", url |-> url, result |-> VideoOf(url)])

\* C25: build_video tags a url holding youtube.com or youtu.be as youtube
\* and embeds the id after youtu.be/ or after v=, without the query suffix;
\* it tags a url holding vimeo.com as vimeo and embeds its last path
\* segment; it embeds every other url as it is and tags it with a type that
\* is neither youtube nor vimeo.
VideoUrlsAreClassified ==
  lastCall.op = "build_video" =>
    LET url == lastCall.url
        r == lastCall.result
    IN IF Contains(url, "youtube.com") \/ Contains(url, "youtu.be")
       THEN /\ r.video_type = "youtube"
            /\ (Contains(url, "youtu.be/") \/ Contains(url, "v=")) =>
                 r.embed_url = "https://www.youtube.com/embed/abc123"
       ELSE IF Contains(url, "vimeo.com")
       THEN /\ r.video_type = "vimeo"
            /\ r.embed_url = "https://player.vimeo.com/video/7654321"
       ELSE /\ r.embed_url = url
            /\ r.video_type \notin {"youtube", "vimeo"}

\* The character of s at position i, "" outside s.
At(s, i) == IF i >= 1 /\ i <= Len(s) THEN SubSeq(s, i, i) ELSE ""

\* The positions of s that hold the character c.
IndicesOf(s, c) == {i \in 1 .. Len(s) : At(s, i) = c}

\* The largest member of a non-empty set of positions.
Last(S) == CHOOSE i \in S : \A k \in S : k <= i

\* The smallest member of a non-empty set of positions.
First(S) == CHOOSE i \in S : \A k \in S : i <= k

\* re.search(r'\{[\s\S]*\}', response): the match starts at the leftmost
\* "{" and, the star being greedy, ends at the last "}" of the response.
json_match(response) ==
  LET opens == IndicesOf(response, "{")
      closes == IndicesOf(response, "}")
  IN IF opens = {} \/ closes = {} \/ Last(closes) < First(opens)
     THEN None
     ELSE Some(SubSeq(response, First(opens), Last(closes)))

\* JSON whitespace.
Whitespace == {" ", "\n"}

Digits == {"0", "1", "2", "3", "4", "5", "6", "7", "8", "9"}

\* The first position of s at or after i that holds no whitespace.
RECURSIVE SkipWs(_, _)
SkipWs(s, i) == IF At(s, i) \in Whitespace THEN SkipWs(s, i + 1) ELSE i

\* The position after the string literal whose opening quote is before i;
\* 0 when the literal is not closed.
RECURSIVE EndOfString(_, _)
EndOfString(s, i) ==
  IF i > Len(s) THEN 0
  ELSE IF At(s, i) = "\"" THEN i + 1
  ELSE EndOfString(s, i + 1)

\* The position after the run of digits that starts at i.
RECURSIVE EndOfDigits(_, _)
EndOfDigits(s, i) == IF At(s, i) \in Digits THEN EndOfDigits(s, i + 1) ELSE i

\* The position after the JSON value that starts at i (an object, a string
\* without escapes or a non-negative integer), 0 when none starts there;
\* EndOfMembers reads the members of an object up to its closing brace.
RECURSIVE EndOfValue(_, _), EndOfMembers(_, _)
EndOfValue(s, i) ==
  IF At(s, i) = "\"" THEN EndOfString(s, i + 1)
  ELSE IF At(s, i) = "0" THEN i + 1
  ELSE IF At(s, i) \in Digits THEN EndOfDigits(s, i + 1)
  ELSE IF At(s, i) = "{"
  THEN LET k == SkipWs(s, i + 1)
       IN IF At(s, k) = "}" THEN k + 1 ELSE EndOfMembers(s, k)
  ELSE 0

EndOfMembers(s, i) ==
  IF At(s, i) # "\"" THEN 0
  ELSE LET afterKey == EndOfString(s, i + 1)
       IN IF afterKey = 0 \/ At(s, SkipWs(s, afterKey)) # ":" THEN 0
          ELSE LET afterValue ==
                     EndOfValue(s, SkipWs(s, SkipWs(s, afterKey) + 1))
                   next == SkipWs(s, afterValue)
               IN IF afterValue = 0 THEN 0
                  ELSE IF At(s, next) = "}" THEN next + 1
                  ELSE IF At(s, next) = ","
                  THEN EndOfMembers(s, SkipWs(s, next + 1))
                  ELSE 0

\* json.loads(text): the parsed value, identified by its text, when the
\* whole text is one JSON value; JSONDecodeError otherwise.
json_loads(text) ==
  LET end == EndOfValue(text, SkipWs(text, 1))
  IN IF end # 0 /\ SkipWs(text, end) = Len(text) + 1
     THEN Returned(SubSeq(text, SkipWs(text, 1), end - 1))
     ELSE Raised("JSONDecodeError")

\* The extraction step of create_outline, extract_pdf_content_structured
\* and generate_image_prompts: parse the match, or the response without one.
extract_json(response) ==
  LET m == json_match(response)
  IN IF m # None THEN json_loads(m[1]) ELSE json_loads(response)

\* The position of the brace that closes the object opened before i, at
\* nesting depth `depth`; 0 when it is never closed.
RECURSIVE ClosingBrace(_, _, _)
ClosingBrace(s, i, depth) ==
  IF i > Len(s) THEN 0
  ELSE IF At(s, i) = "{" THEN ClosingBrace(s, i + 1, depth + 1)
  ELSE IF At(s, i) = "}"
  THEN IF depth = 1 THEN i ELSE ClosingBrace(s, i + 1, depth - 1)
  ELSE ClosingBrace(s, i + 1, depth)

\* The first top-level {...} span of a response that holds one.
FirstTopLevelSpan(response) ==
  LET open == First(IndicesOf(response, "{"))
  IN SubSeq(response, open, ClosingBrace(response, open + 1, 1))

\* Responses: prose, one JSON object, and more prose, which may hold brace
\* characters or a second object.
Responses ==
  {before \o object \o after :
     before \in {"", "Here is the outline:\n"},
     object \in {"{}", "{\"title\": \"T\"}", "{\"a\": {\"n\": 12}, \"b\": 0}"},
     after \in {"", "\nLet me know.", "\nUse the {title} field.",
                "\n{\"note\": 1}"}}

\* The extraction step of one of its three callers is applied to a
\* response; on JSONDecodeError extract_pdf_content_structured raises
\* ValueError and the other two return their fallback.
ApplyExtractJson ==
  \E caller \in {"create_outline", "extract_pdf_content_structured",
                 "generate_image_prompts"},
     response \in Responses :
    LET result == extract_json(response) IN
    Apply([op |-> "extract_json", caller |-> caller, response |-> response,
           match |-> json_match(response),
           result |-> result,
           outcome |-> IF ~result.raised THEN "parsed"
                       ELSE IF caller = "extract_pdf_content_structured"
                       THEN "ValueError"
                       ELSE "fallback"])

\* C26: for a response of prose, one JSON object and more prose, the
\* extraction step selects the first top-level {...} span of the response
\* and parses exactly that span.
ExtractionTakesFirstTopLevelSpan ==
  lastCall.op = "extract_json" =>
    /\ lastCall.match = Some(FirstTopLevelSpan(lastCall.response))
    /\ lastCall.result = Returned(FirstTopLevelSpan(lastCall.response))
    /\ lastCall.outcome = "parsed"

LowerCase == "abcdefghijklmnopqrstuvwxyz"

\* str.lower on ASCII text.
RECURSIVE lower(_)
lower(s) ==
  LET UpperCase == "ABCDEFGHIJKLMNOPQRSTUVWXYZ"
      LowerChar(c) ==
        IF \E i \in 1 .. Len(UpperCase) : At(UpperCase, i) = c
        THEN At(LowerCase,
                CHOOSE i \in 1 .. Len(UpperCase) : At(UpperCase, i) = c)
        ELSE c
  IN IF s = "" THEN "" ELSE LowerChar(Head(s)) \o lower(Tail(s))

\* s without its leading characters of a class: str.lstrip.
RECURSIVE lstrip(_, _)
lstrip(s, class) ==
  IF s # "" /\ Head(s) \in class THEN lstrip(Tail(s), class) ELSE s

\* s without its trailing characters of a class: str.rstrip.
RECURSIVE rstrip(_, _)
rstrip(s, class) ==
  IF s = "" \/ At(s, Len(s)) \notin class THEN s
  ELSE IF Len(s) = 1 THEN ""
  ELSE rstrip(SubSeq(s, 1, Len(s) - 1), class)

\* re.sub(r'[^class]', '', s): s without the characters outside a class.
RECURSIVE KeepOnly(_, _)
KeepOnly(s, class) ==
  IF s = "" THEN ""
  ELSE IF Head(s) \in class THEN Head(s) \o KeepOnly(Tail(s), class)
  ELSE KeepOnly(Tail(s), class)

\* re.sub(r'[class]+', by, s): every maximal run of characters of a class
\* replaced by `by`.
RECURSIVE SubRuns(_, _, _)
SubRuns(s, class, by) ==
  IF s = "" THEN ""
  ELSE IF Head(s) \in class THEN by \o SubRuns(lstrip(s, class), class, by)
  ELSE Head(s) \o SubRuns(Tail(s), class, by)

\* The characters main.slugify keeps: a-z, 0-9, whitespace and the hyphen.
SlugSource ==
  {At(LowerCase, i) : i \in 1 .. Len(LowerCase)} \cup Digits \cup Whitespace
    \cup {"-"}

\* The length main.slugify cuts the slug to.
SlugCap == 50

\* main.slugify: lower, drop other characters, runs of whitespace and
\* underscores to a hyphen, runs of hyphens to one, strip hyphens, then cut.
slugify(text) ==
  LET kept == KeepOnly(lower(text), SlugSource)
      hyphenated == SubRuns(kept, Whitespace \cup {"_"}, "-")
      collapsed == SubRuns(hyphenated, {"-"}, "-")
      stripped == rstrip(lstrip(collapsed, {"-"}), {"-"})
  IN IF Len(stripped) <= SlugCap THEN stripped
     ELSE SubSeq(stripped, 1, SlugCap)

\* A text of n letters.
RECURSIVE Padding(_)
Padding(n) == IF n = 0 THEN "" ELSE "a" \o Padding(n - 1)

\* Texts: a run of letters followed by a short ending.
Texts ==
  {Padding(n) \o ending :
     n \in 0 .. MaxPadding,
     ending \in {"", " b", "-B", "  Hello, World!", "__x", " - ",
                 "\n2nd_Edition", "!?"}}

ApplySlugify ==
  \E text \in Texts :
    Apply([op |-> "slugify", text |-> text, result |-> slugify(text)])

\* C27: the slug of main.slugify holds only a-z, 0-9 and '-', has no two
\* adjacent hyphens, no leading or trailing hyphen, and at most 50
\* characters.
CliSlugIsWellFormed ==
  lastCall.op = "slugify" =>
    LET slug == lastCall.result
    IN /\ \A i \in 1 .. Len(slug) :
            At(slug, i) \in (SlugSource \ Whitespace)
       /\ ~Contains(slug, "--")
       /\ At(slug, 1) # "-"
       /\ At(slug, Len(slug)) # "-"
       /\ Len(slug) <= SlugCap

PureNext ==
  \/ ApplyReadTime
  \/ ApplyBuildHtml
  \/ ApplyBuildVideo
  \/ ApplyExtractJson
  \/ ApplySlugify

PureSpec == Init /\ [][PureNext]_vars

====
